---- MODULE Spec2Model ----
(***************************************************************************)
(* The causal state graph of X-infra (src/src/graph.rs): nodes, edges,     *)
(* event ingest (process_event and its handlers, followed by               *)
(* cleanup_old_errors) and the root-cause search (find_root_cause).        *)
(*                                                                         *)
(* Strings are TLA+ strings; Option<T> is a tuple: <<>> is None and <<x>>  *)
(* is Some(x).  The two non-ASCII literals of graph.rs are written with    *)
(* their code points spelled out (see WaitingPrefix, UnknownError).        *)
(***************************************************************************)
EXTENDS Integers, Sequences, FiniteSets, TLC

VARIABLES nodes, edges, prev, lastEv, nEvents, hist, answer, scope
\* the call of find_root_cause in progress (see the section on dfs_backward)
VARIABLES dfs
\* the replay of an event batch (see the section on batches)
VARIABLES batch
\* the probe process, the probe adapter and the event bus of the Agent
VARIABLES bus
\* one connection of the Agent's local RPC server
VARIABLES rpc
\* the Hub: its connection registry, its connections and its global graph
VARIABLES hub
\* the component under study in the specifications of the Hub's orchestrator
\* controller and of the Agent's uplink filter, executor, actuator, command
\* handler, rule engine and graph locks; each of them uses it alone
VARIABLES comp

graphVars == <<nodes, edges, prev, lastEv, nEvents, hist, answer, scope>>

\* the variables of the components other than the StateGraph under ingest
otherVars == <<dfs, batch, bus, rpc, hub, comp>>

\* every variable but comp
hostVars == <<graphVars, dfs, batch, bus, rpc, hub>>

vars == <<graphVars, otherVars>>

None == <<>>
Some(x) == <<x>>

(***************************************************************************)
(* Bounds of the exploration.                                              *)
(***************************************************************************)
\* events ingested per behaviour under Spec
MaxEvents == 3
\* events ingested per behaviour under SpecScenario
MaxScenarioEvents == 4

(***************************************************************************)
(* Program constants.                                                      *)
(***************************************************************************)
\* cleanup_old_errors: 10 * 60 * 1000
ProcessWindowMs == 600000
\* StateGraph::new: error_window_ms = 5 * 60 * 1000
ErrorWindowMs == 300000

\* format!("pid-{}", pid)
PidStr(pid) == "pid-" \o ToString(pid)
\* format!("error-{}", event.entity_id)
ErrorId(entity_id) == "error-" \o entity_id

\* u64::saturating_sub
SaturatingSub(a, b) == IF a >= b THEN a - b ELSE 0

(***************************************************************************)
(* str::contains and str::parse::<f64>, computed character by character.   *)
(***************************************************************************)
Contains(s, pat) ==
    \E i \in 1..(Len(s) - Len(pat) + 1) : SubSeq(s, i, i + Len(pat) - 1) = pat

Digits == {"0", "1", "2", "3", "4", "5", "6", "7", "8", "9"}

DigitVal(c) ==
    CASE c = "0" -> 0 [] c = "1" -> 1 [] c = "2" -> 2 [] c = "3" -> 3
      [] c = "4" -> 4 [] c = "5" -> 5 [] c = "6" -> 6 [] c = "7" -> 7
      [] c = "8" -> 8 [] c = "9" -> 9

AllDigits(s) == \A i \in 1..Len(s) : SubSeq(s, i, i) \in Digits

RECURSIVE DecimalValue(_)
DecimalValue(s) ==
    IF Len(s) = 0 THEN 0
    ELSE 10 * DecimalValue(SubSeq(s, 1, Len(s) - 1)) + DigitVal(SubSeq(s, Len(s), Len(s)))

\* The decimal literals f64::from_str accepts without an exponent:
\* [+-] digits [. digits], with at least one digit.  Some([neg, int, frac])
\* is the parsed number (frac: the fraction digits are not all zero), None a
\* parse error.  "inf", "nan" and exponents are outside the input alphabet.
ParseF64(s) ==
    LET signed == Len(s) > 0 /\ SubSeq(s, 1, 1) \in {"+", "-"}
        neg    == Len(s) > 0 /\ SubSeq(s, 1, 1) = "-"
        body   == IF signed THEN SubSeq(s, 2, Len(s)) ELSE s
        dots   == {i \in 1..Len(body) : SubSeq(body, i, i) = "."}
        dot    == IF dots = {} THEN Len(body) + 1 ELSE CHOOSE i \in dots : TRUE
        ip     == SubSeq(body, 1, dot - 1)
        fp     == SubSeq(body, dot + 1, Len(body))
    IN  IF /\ Cardinality(dots) <= 1
           /\ AllDigits(ip) /\ AllDigits(fp)
           /\ Len(ip) + Len(fp) > 0
        THEN Some([neg |-> neg, int |-> DecimalValue(ip), frac |-> DecimalValue(fp) > 0])
        ELSE None

\* x < 1.0 for a parsed number
BelowOne(x) == x.neg \/ x.int = 0

\* event.value.parse::<f64>().unwrap_or(1000.0) < 1.0
ParsedBelowOne(value) ==
    LET r == ParseF64(value) IN IF r = None THEN FALSE ELSE BelowOne(r[1])

(***************************************************************************)
(* Maps (HashMap<String, _>) as functions with a finite domain.            *)
(***************************************************************************)
EmptyMap == [k \in {} |-> ""]
MapInsert(m, k, v) == [x \in (DOMAIN m) \cup {k} |-> IF x = k THEN v ELSE m[x]]
MapGet(m, k) == IF k \in DOMAIN m THEN Some(m[k]) ELSE None
MapRemoveAll(m, ks) == [x \in (DOMAIN m) \ ks |-> m[x]]

(***************************************************************************)
(* struct Node, struct Edge, struct StateGraph.                            *)
(***************************************************************************)
Node(id, node_type, last_update, metadata) ==
    [id |-> id, node_type |-> node_type, last_update |-> last_update,
     metadata |-> metadata]

Edge(edge_type, from, to, ts) ==
    [edge_type |-> edge_type, from |-> from, to |-> to, ts |-> ts]

Graph(ns, es) == [nodes |-> ns, edges |-> es]

\* StateGraph::new
NewGraph == Graph(EmptyMap, <<>>)

\* edges.iter().any(|e| e.edge_type == t && e.from == from && e.to == to)
EdgeExists(es, t, from, to) ==
    \E i \in 1..Len(es) : es[i].edge_type = t /\ es[i].from = from /\ es[i].to = to

\* mutant of PushEdgeIfAbsent: the push without the edge_exists test
PushEdgeAlways(es, t, from, to, ts) == Append(es, Edge(t, from, to, ts))

\* if !edge_exists { edges.push(Edge { .. }) }
PushEdgeIfAbsent(es, t, from, to, ts) ==
    IF EdgeExists(es, t, from, to) THEN es ELSE Append(es, Edge(t, from, to, ts))

\* if !nodes.contains_key(id) { nodes.insert(id, Node { .. }) }
InsertNodeIfAbsent(ns, id, node_type, ts, metadata) ==
    IF id \in DOMAIN ns THEN ns ELSE MapInsert(ns, id, Node(id, node_type, ts, metadata))

(***************************************************************************)
(* handle_process_state                                                    *)
(***************************************************************************)
HandleProcessState(g, event) ==
    IF event.pid = None THEN g
    ELSE
      LET pid_str == PidStr(event.pid[1])
      IN  IF event.value = "start" THEN
            LET withJob == IF event.job_id = None THEN EmptyMap
                           ELSE MapInsert(EmptyMap, "job_id", event.job_id[1])
                metadata == MapInsert(withJob, "state", "running")
            IN  Graph(MapInsert(g.nodes, pid_str,
                                Node(pid_str, "Process", event.ts, metadata)),
                      g.edges)
          ELSE IF event.value = "exit" \/ event.value = "zombie" THEN
            IF pid_str \in DOMAIN g.nodes THEN
              LET node == g.nodes[pid_str]
              IN  Graph(MapInsert(g.nodes, pid_str,
                          Node(node.id, node.node_type, event.ts,
                               MapInsert(node.metadata, "state", event.value))),
                        g.edges)
            ELSE g
          ELSE g

(***************************************************************************)
(* handle_compute_event                                                    *)
(***************************************************************************)
\* ensure the resource node, then metadata.insert(key, value) and
\* last_update = ts on it
UpdateResource(ns, event, key) ==
    LET ns1  == InsertNodeIfAbsent(ns, event.entity_id, "Resource", event.ts, EmptyMap)
        node == ns1[event.entity_id]
    IN  MapInsert(ns1, event.entity_id,
                  Node(node.id, node.node_type, event.ts,
                       MapInsert(node.metadata, key, event.value)))

HandleComputeEvent(g, event) ==
    LET ns1 == UpdateResource(g.nodes, event, "util")
    IN  IF event.pid = None THEN Graph(ns1, g.edges)
        ELSE
          LET pid_str == PidStr(event.pid[1])
              ns2 == InsertNodeIfAbsent(ns1, pid_str, "Process", event.ts, EmptyMap)
          IN  Graph(ns2, PushEdgeIfAbsent(g.edges, "Consumes", pid_str,
                                          event.entity_id, event.ts))

(***************************************************************************)
(* handle_transport_event, handle_storage_event                            *)
(***************************************************************************)
TransportKey(event_type) ==
    CASE event_type = "transport.bw"   -> "bw"
      [] event_type = "transport.drop" -> "drop"
      [] OTHER                         -> "unknown"

ShouldCreateWaitsOn(event) ==
    CASE event.event_type = "transport.drop" -> TRUE
      [] event.event_type = "transport.bw"   ->
            Contains(event.value, "IO_WAIT") \/ ParsedBelowOne(event.value)
      [] OTHER -> FALSE

HandleTransportEvent(g, event) ==
    LET ns1 == UpdateResource(g.nodes, event, TransportKey(event.event_type))
    IN  IF event.pid # None /\ ShouldCreateWaitsOn(event) THEN
          LET pid_str == PidStr(event.pid[1])
              ns2 == InsertNodeIfAbsent(ns1, pid_str, "Process", event.ts, EmptyMap)
          IN  Graph(ns2, PushEdgeIfAbsent(g.edges, "WaitsOn", pid_str,
                                          event.entity_id, event.ts))
        ELSE Graph(ns1, g.edges)

HandleStorageEvent(g, event) == HandleTransportEvent(g, event)

(***************************************************************************)
(* handle_error_event, handle_topo_event                                   *)
(***************************************************************************)
\* the error node of handle_error_event: inserted only when the id is absent
EnsureErrorNode(ns, error_id, event) ==
    InsertNodeIfAbsent(ns, error_id, "Error", event.ts,
                       MapInsert(EmptyMap, "error_type", event.value))

\* affected_pids: the sources of the Consumes edges into the resource, in
\* edge order
AffectedPids(es, resource_id) ==
    LET hit(e) == e.edge_type = "Consumes" /\ e.to = resource_id
        sel == SelectSeq(es, hit)
    IN  [i \in 1..Len(sel) |-> sel[i].from]

\* for pid_str in affected_pids { push BlockedBy unless it exists }
RECURSIVE AddBlockedBy(_, _, _, _)
AddBlockedBy(es, pids, error_id, ts) ==
    IF pids = <<>> THEN es
    ELSE AddBlockedBy(PushEdgeIfAbsent(es, "BlockedBy", Head(pids), error_id, ts),
                      Tail(pids), error_id, ts)

HandleErrorEvent(g, event) ==
    LET error_id == ErrorId(event.entity_id)
    IN  Graph(EnsureErrorNode(g.nodes, error_id, event),
              AddBlockedBy(g.edges, AffectedPids(g.edges, event.entity_id),
                           error_id, event.ts))

HandleTopoEvent(g, event) == HandleErrorEvent(g, event)

(***************************************************************************)
(* cleanup_old_errors                                                      *)
(***************************************************************************)
\* error_ids: Error nodes with last_update < cutoff_ts
ExpiredErrorIds(ns, cutoff_ts) ==
    {id \in DOMAIN ns : ns[id].node_type = "Error" /\ ns[id].last_update < cutoff_ts}

\* mutant of RetainUnexpired: the expired nodes go, their edges stay
RetainUnexpiredKeepAll(es, error_ids) == es

\* edges.retain(|e| !(BlockedBy && error_ids.contains(&e.to)))
RetainUnexpired(es, error_ids) ==
    LET keep(e) == ~(e.edge_type = "BlockedBy" /\ e.to \in error_ids)
    IN  SelectSeq(es, keep)

\* mutant of IsDeadProcess: without is_explicitly_dead
IsDeadProcessStaleOnly(node, process_cutoff) ==
    /\ node.node_type = "Process"
    /\ node.last_update < process_cutoff
    /\ MapGet(node.metadata, "state") # Some("running")

\* mutant of IsDeadProcess: the stale test without the state test
IsDeadProcessIgnoringState(node, process_cutoff) ==
    /\ node.node_type = "Process"
    /\ LET state == MapGet(node.metadata, "state")
       IN  \/ state = Some("exit") \/ state = Some("zombie")
           \/ node.last_update < process_cutoff

\* the filter of dead_pids on one node
IsDeadProcess(node, process_cutoff) ==
    /\ node.node_type = "Process"
    /\ LET state == MapGet(node.metadata, "state")
           is_explicitly_dead == state = Some("exit") \/ state = Some("zombie")
           is_stale_non_running ==
               node.last_update < process_cutoff /\ state # Some("running")
       IN  is_explicitly_dead \/ is_stale_non_running

DeadPids(ns, process_cutoff) ==
    {id \in DOMAIN ns : IsDeadProcess(ns[id], process_cutoff)}

\* mutant of RetainAlive: the dead processes go, their edges stay
RetainAliveKeepAll(es, dead_pids) == es

\* edges.retain(|e| !dead_pids.contains(&e.from) && !dead_pids.contains(&e.to))
RetainAlive(es, dead_pids) ==
    LET keep(e) == e.from \notin dead_pids /\ e.to \notin dead_pids
    IN  SelectSeq(es, keep)

CleanupOldErrors(g, current_ts) ==
    LET cutoff_ts == SaturatingSub(current_ts, ErrorWindowMs)
        error_ids == ExpiredErrorIds(g.nodes, cutoff_ts)
        ns1 == MapRemoveAll(g.nodes, error_ids)
        es1 == RetainUnexpired(g.edges, error_ids)
        process_cutoff == SaturatingSub(current_ts, ProcessWindowMs)
        dead_pids == DeadPids(ns1, process_cutoff)
    IN  Graph(MapRemoveAll(ns1, dead_pids), RetainAlive(es1, dead_pids))

(***************************************************************************)
(* process_event: dispatch on the event type, then cleanup_old_errors.     *)
(***************************************************************************)
Dispatch(g, event) ==
    CASE event.event_type = "process.state" -> HandleProcessState(g, event)
      [] event.event_type \in {"compute.util", "compute.mem"} ->
            HandleComputeEvent(g, event)
      [] event.event_type \in {"transport.bw", "transport.drop"} ->
            HandleTransportEvent(g, event)
      [] event.event_type \in {"storage.iops", "storage.qdepth"} ->
            HandleStorageEvent(g, event)
      [] event.event_type \in {"error.hw", "error.net"} ->
            HandleErrorEvent(g, event)
      [] event.event_type = "topo.link_down" -> HandleTopoEvent(g, event)
      [] OTHER -> g

ProcessEvent(g, event) == CleanupOldErrors(Dispatch(g, event), event.ts)

(***************************************************************************)
(* get_active_processes, get_process_resources                             *)
(***************************************************************************)
GetActiveProcesses(ns) ==
    {ns[id] : id \in {i \in DOMAIN ns :
        /\ ns[i].node_type = "Process"
        /\ MapGet(ns[i].metadata, "state") # Some("exit")
        /\ MapGet(ns[i].metadata, "state") # Some("zombie")}}

GetProcessResources(es, pid) ==
    LET hit(e) == e.edge_type = "Consumes" /\ e.from = PidStr(pid)
        sel == SelectSeq(es, hit)
    IN  [i \in 1..Len(sel) |-> sel[i].to]

(***************************************************************************)
(* find_root_cause, dfs_backward                                           *)
(***************************************************************************)
\* the literal of graph.rs:470, U+7B49 U+5F85 U+8D44 U+6E90 followed by ": "
WaitingPrefix == "\\u7b49\\u5f85\\u8d44\\u6e90: "
\* the literal of graph.rs:457, U+672A U+77E5 U+9519 U+8BEF
UnknownError == "\\u672a\\u77e5\\u9519\\u8bef"

\* format!("{}: {}", edge.to, error_type or the default)
ErrorDesc(to, node) ==
    LET t == MapGet(node.metadata, "error_type")
    IN  to \o ": " \o (IF t = None THEN UnknownError ELSE t[1])

\* format!("<WaitingPrefix>{}", edge.to)
WaitingDesc(to) == WaitingPrefix \o to

\* the second loop of dfs_backward: one cause per WaitsOn edge out of node_id
WaitsOnCauses(es, node_id) ==
    LET hit(e) == e.edge_type = "WaitsOn" /\ e.from = node_id
        sel == SelectSeq(es, hit)
    IN  [i \in 1..Len(sel) |-> WaitingDesc(sel[i].to)]

RECURSIVE DfsBackward(_, _, _, _)
RECURSIVE BlockedByLoop(_, _, _, _, _)

\* the first loop of dfs_backward from edge i on; st = [visited, causes]
BlockedByLoop(i, node_id, es, ns, st) ==
    IF i > Len(es) THEN st
    ELSE
      LET edge == es[i]
      IN  IF edge.edge_type = "BlockedBy" /\ edge.from = node_id
             /\ edge.to \in DOMAIN ns
          THEN
            LET node == ns[edge.to]
                st1 == IF node.node_type = "Error"
                       THEN [st EXCEPT !.causes = Append(@, ErrorDesc(edge.to, node))]
                       ELSE st
                st2 == DfsBackward(edge.to, es, ns, st1)
            IN  BlockedByLoop(i + 1, node_id, es, ns, st2)
          ELSE BlockedByLoop(i + 1, node_id, es, ns, st)

\* mutant of DfsBackward: the WaitsOn loop before the BlockedBy loop
DfsBackwardWaitsFirst(node_id, es, ns, st) ==
    IF node_id \in st.visited THEN st
    ELSE
      LET st1 == [st EXCEPT !.visited = @ \cup {node_id},
                            !.causes = @ \o WaitsOnCauses(es, node_id)]
      IN  BlockedByLoop(1, node_id, es, ns, st1)

DfsBackward(node_id, es, ns, st) ==
    IF node_id \in st.visited THEN st
    ELSE
      LET st1 == [st EXCEPT !.visited = @ \cup {node_id}]
          st2 == BlockedByLoop(1, node_id, es, ns, st1)
      IN  [st2 EXCEPT !.causes = @ \o WaitsOnCauses(es, node_id)]

FindRootCause(g, pid) ==
    DfsBackward(PidStr(pid), g.edges, g.nodes,
                [visited |-> {}, causes |-> <<>>]).causes

(***************************************************************************)
(* struct Event and the events fed to the graph.                           *)
(***************************************************************************)
Event(ts, event_type, entity_id, job_id, pid, value) ==
    [ts |-> ts, event_type |-> event_type, entity_id |-> entity_id,
     job_id |-> job_id, pid |-> pid, value |-> value]

Pids == {1, 2}

\* timestamps under Spec: 301000 - 1000 is exactly the error window,
\* 601001 is past both windows of 1000 and past the error window of 301000
Timestamps == {1000, 301000, 601001}

\* an event without its timestamp
Shape(event_type, entity_id, job_id, pid, value) ==
    [event_type |-> event_type, entity_id |-> entity_id, job_id |-> job_id,
     pid |-> pid, value |-> value]

At(ts, sh) == Event(ts, sh.event_type, sh.entity_id, sh.job_id, sh.pid, sh.value)

\* process.state events name the process as dummy_probe does ("proc-<pid>");
\* pid 1 is started with a job id and exits, pid 2 without and turns zombie
ProcessStateShapes ==
    {Shape("process.state", "proc-1", Some("job-A"), Some(1), "start"),
     Shape("process.state", "proc-2", None, Some(2), "start"),
     Shape("process.state", "proc-1", None, Some(1), "exit"),
     Shape("process.state", "proc-2", None, Some(2), "zombie")}

\* both processes use gpu-0; one metric without a pid
ComputeShapes ==
    {Shape("compute.util", "gpu-0", None, Some(p), "90") : p \in Pids}
    \cup {Shape("compute.mem", "gpu-0", None, None, "90")}

\* a stalled, a healthy and an IO_WAIT bandwidth sample, and a drop
TransportShapes ==
    {Shape("transport.bw", "mlx5_0", None, Some(1), v) : v \in {"0.5", "100"}}
    \cup {Shape("transport.bw", "mlx5_0", None, Some(2), "IO_WAIT"),
          Shape("transport.drop", "mlx5_0", None, Some(2), "7")}

StorageShapes ==
    {Shape("storage.iops", "nvme0", None, Some(1), "0.5"),
     Shape("storage.qdepth", "nvme0", None, Some(2), "IO_WAIT")}

ErrorShapes ==
    {Shape("error.hw", "gpu-0", None, None, "XID_79"),
     Shape("error.net", "mlx5_0", None, None, "LINK_DOWN")}

TopoShapes == {Shape("topo.link_down", "gpu-0", None, None, "NVLINK_DOWN")}

OtherShapes == {Shape("intent.run", "sched", None, None, "noop")}

MainShapes ==
    ProcessStateShapes \cup ComputeShapes \cup TransportShapes
    \cup StorageShapes \cup ErrorShapes \cup TopoShapes \cup OtherShapes

MainEvents == {At(ts, sh) : ts \in Timestamps, sh \in MainShapes}

(***************************************************************************)
(* The end-to-end scenarios of spec.md section 8 (S1..S4), with their      *)
(* literal inputs.                                                         *)
(***************************************************************************)
S1Start == Event(1000, "process.state", "proc-1", Some("job-A"), Some(1), "start")
S1Util  == Event(1010, "compute.util", "gpu-0", None, Some(1), "90")
S1Error == Event(1020, "error.hw", "gpu-0", None, None, "XID_79")
S1 == <<S1Start, S1Util, S1Error>>

S2Start == Event(2000, "process.state", "proc-2", None, Some(2), "start")
S2Drop  == Event(2010, "transport.drop", "mlx5_0", None, Some(2), "7")
S2 == <<S2Start, S2Drop>>

S3Exit == Event(1100, "process.state", "proc-1", None, Some(1), "exit")

\* S4's timestamp, 1000 + 5*60_000 + 1, and the first timestamp past the
\* error window of S1Error, 1020 + 5*60_000 + 1
S4Timestamps == {301001, 301021}

\* events that touch neither gpu-0 nor pid 1
UnrelatedEvents(T) ==
    {Event(ts, "intent.run", "sched", None, None, "noop") : ts \in T}
    \cup {Event(ts, "storage.iops", "nvme0", None, Some(2), "100") : ts \in T}
    \cup {Event(ts, "topo.link_down", "nvlink-1", None, None, "NVLINK_DOWN") : ts \in T}

ScenarioEvents ==
    {S1Start, S1Util, S1Error, S2Start, S2Drop, S3Exit}
    \cup UnrelatedEvents(S4Timestamps)

(***************************************************************************)
(* The state machine.  nodes and edges are the StateGraph; lastEv is the   *)
(* event of the last process_event call, prev the graph that call started  *)
(* from, nEvents the number of calls,                                      *)
(* hist the events ingested so far (recorded under SpecScenario only),     *)
(* answer the result of a find_root_cause call made since the last ingest, *)
(* scope the input alphabet of the behaviour.                              *)
(***************************************************************************)
InitCommon ==
    /\ nodes = NewGraph.nodes
    /\ edges = NewGraph.edges
    /\ prev = NewGraph
    /\ lastEv = None
    /\ nEvents = 0
    /\ hist = <<>>
    /\ answer = None

\* no call of find_root_cause in progress
DfsIdle == [phase |-> "idle"]

\* no batch under replay
BatchIdle == [phase |-> "idle"]

\* no probe adapter running
BusIdle == [phase |-> "idle"]

\* no RPC connection open
RpcIdle == [phase |-> "idle"]

\* no Hub running
HubIdle == [phase |-> "idle"]

\* the components not named in S are idle: each specification runs the
\* components it is about
CompIdle == [phase |-> "idle"]

IdleExcept(S) ==
    /\ IF "dfs" \in S THEN TRUE ELSE dfs = DfsIdle
    /\ IF "batch" \in S THEN TRUE ELSE batch = BatchIdle
    /\ IF "bus" \in S THEN TRUE ELSE bus = BusIdle
    /\ IF "rpc" \in S THEN TRUE ELSE rpc = RpcIdle
    /\ IF "hub" \in S THEN TRUE ELSE hub = HubIdle
    /\ IF "comp" \in S THEN TRUE ELSE comp = CompIdle

Init == InitCommon /\ scope = "main" /\ IdleExcept({})

InitScenario == InitCommon /\ scope = "scenario" /\ IdleExcept({})

Universe == IF scope = "scenario" THEN ScenarioEvents ELSE MainEvents

EventBudget == IF scope = "scenario" THEN MaxScenarioEvents ELSE MaxEvents

\* one call of process_event
Ingest(event) ==
    /\ nEvents < EventBudget
    /\ LET g == ProcessEvent(Graph(nodes, edges), event)
       IN  nodes' = g.nodes /\ edges' = g.edges
    /\ prev' = Graph(nodes, edges)
    /\ lastEv' = Some(event)
    /\ nEvents' = nEvents + 1
    /\ hist' = IF scope = "scenario" THEN Append(hist, event) ELSE hist
    /\ answer' = None
    /\ UNCHANGED <<scope, otherVars>>

IngestProcessState ==
    \E event \in Universe : event.event_type = "process.state" /\ Ingest(event)

IngestCompute ==
    \E event \in Universe :
        event.event_type \in {"compute.util", "compute.mem"} /\ Ingest(event)

IngestTransport ==
    \E event \in Universe :
        event.event_type \in {"transport.bw", "transport.drop"} /\ Ingest(event)

IngestStorage ==
    \E event \in Universe :
        event.event_type \in {"storage.iops", "storage.qdepth"} /\ Ingest(event)

IngestError ==
    \E event \in Universe :
        event.event_type \in {"error.hw", "error.net"} /\ Ingest(event)

IngestTopo ==
    \E event \in Universe : event.event_type = "topo.link_down" /\ Ingest(event)

IngestOther ==
    \E event \in Universe :
        event.event_type \in {"intent.run", "action.exec"} /\ Ingest(event)

\* one call of find_root_cause
WhyProcess ==
    \E pid \in Pids :
        /\ answer' = Some([pid |-> pid,
                           causes |-> FindRootCause(Graph(nodes, edges), pid)])
        /\ UNCHANGED <<nodes, edges, prev, lastEv, nEvents, hist, scope, otherVars>>

Next ==
    \/ IngestProcessState
    \/ IngestCompute
    \/ IngestTransport
    \/ IngestStorage
    \/ IngestError
    \/ IngestTopo
    \/ IngestOther

NextScenario == Next \/ WhyProcess

Spec == Init /\ [][Next]_vars

SpecScenario == InitScenario /\ [][NextScenario]_vars

(***************************************************************************)
(* Vocabulary of the properties.                                           *)
(***************************************************************************)
Range(seq) == {seq[i] : i \in 1..Len(seq)}

\* the (from, to) pairs of the edges of one kind
EdgePairs(es, t) == {<<e.from, e.to>> : e \in {x \in Range(es) : x.edge_type = t}}

\* the sources of the edges of kind t into node to
SourcesInto(es, t, to) == {pr[1] : pr \in {x \in EdgePairs(es, t) : x[2] = to}}

\* the targets of the edges of kind t out of node from
TargetsOutOf(es, t, from) == {pr[2] : pr \in {x \in EdgePairs(es, t) : x[1] = from}}

Touches(es, id) == \E e \in Range(es) : e.from = id \/ e.to = id

Ingested == lastEv # None
Last == lastEv[1]

MetricTypes ==
    {"compute.util", "compute.mem", "transport.bw", "transport.drop",
     "storage.iops", "storage.qdepth"}

IsRunning(g, id) ==
    /\ id \in DOMAIN g.nodes
    /\ g.nodes[id].node_type = "Process"
    /\ MapGet(g.nodes[id].metadata, "state") = Some("running")

\* C1: immediately after an error.hw event for entity e, error-e is present
\* and the BlockedBy edges into error-e come from exactly the processes with
\* a Consumes edge into e.
C1_BlockedByExactlyConsumers ==
    (Ingested /\ Last.event_type = "error.hw") =>
        LET error_id == ErrorId(Last.entity_id)
        IN  /\ error_id \in DOMAIN nodes
            /\ SourcesInto(edges, "BlockedBy", error_id)
                 = SourcesInto(edges, "Consumes", Last.entity_id)

StaleErrors(g, ts) ==
    {id \in DOMAIN g.nodes :
        /\ g.nodes[id].node_type = "Error"
        /\ g.nodes[id].last_update + ErrorWindowMs < ts}

\* C3: after an ingest at timestamp T the graph holds no Error node whose
\* last_update is older than T minus the 300000 ms window, and every Error
\* node that was that old before the ingest is gone together with the
\* BlockedBy edges into it.
C3_ExpiredErrorsAbsent ==
    Ingested =>
        /\ StaleErrors(Graph(nodes, edges), Last.ts) = {}
        /\ \A id \in StaleErrors(prev, Last.ts) :
              /\ id \notin DOMAIN nodes
              /\ SourcesInto(edges, "BlockedBy", id) = {}

\* C3 witness: the ingest found an expired Error node with a BlockedBy edge
\* into it.
C3_Witness ==
    /\ Ingested
    /\ \E id \in StaleErrors(prev, Last.ts) :
          SourcesInto(prev.edges, "BlockedBy", id) # {}

\* the events of S1 followed by one unrelated event at timestamp ts
S1ThenUnrelatedAt(ts) ==
    /\ Len(hist) = Len(S1) + 1
    /\ SubSeq(hist, 1, Len(S1)) = S1
    /\ hist[Len(hist)] \in UnrelatedEvents({ts})

ErrorGpu0Gone ==
    /\ "error-gpu-0" \notin DOMAIN nodes
    /\ SourcesInto(edges, "BlockedBy", "error-gpu-0") = {}

\* C4 as stated: after S1 (start of pid 1 at 1000, compute.util on gpu-0 at
\* 1010, error.hw XID_79 on gpu-0 at 1020), an unrelated event at
\* 1000 + 5*60000 + 1 = 301001 leaves neither error-gpu-0 nor a BlockedBy
\* edge into it.
C4_S4AsStated == S1ThenUnrelatedAt(301001) => ErrorGpu0Gone

\* C4 amended: the window runs from the error's own timestamp, 1020.  After
\* S1 an unrelated event at 1020 + 5*60000 + 1 = 301021 leaves neither
\* error-gpu-0 nor a BlockedBy edge into it; after an unrelated event at
\* 301001 the node, last updated at 1020, and the edge pid-1 -> error-gpu-0
\* are still there.
C4_S4Amended ==
    /\ S1ThenUnrelatedAt(301021) => ErrorGpu0Gone
    /\ S1ThenUnrelatedAt(301001) =>
          /\ "error-gpu-0" \in DOMAIN nodes
          /\ nodes["error-gpu-0"].last_update = 1020
          /\ SourcesInto(edges, "BlockedBy", "error-gpu-0") = {"pid-1"}

\* C4 witness: S1 followed by an unrelated event at 301021, before which
\* error-gpu-0 and its BlockedBy edge were in the graph.
C4_Witness ==
    /\ S1ThenUnrelatedAt(301021)
    /\ "error-gpu-0" \in DOMAIN prev.nodes
    /\ SourcesInto(prev.edges, "BlockedBy", "error-gpu-0") = {"pid-1"}

\* C5: a process node whose state is running is removed by no event other
\* than a process.state exit or zombie event for its own pid, however far
\* the event's timestamp lies beyond the node's last_update.
C5_RunningNeverExpires ==
    Ingested =>
        \A p \in Pids :
            (IsRunning(prev, PidStr(p)) /\ PidStr(p) \notin DOMAIN nodes) =>
                /\ Last.event_type = "process.state"
                /\ Last.pid = Some(p)
                /\ Last.value \in {"exit", "zombie"}

\* C5 witness: a running process is still in the graph after an event whose
\* timestamp is more than 10 minutes past the process's last_update.
C5_Witness ==
    /\ Ingested
    /\ \E p \in Pids :
          /\ IsRunning(prev, PidStr(p))
          /\ IsRunning(Graph(nodes, edges), PidStr(p))
          /\ nodes[PidStr(p)].last_update + ProcessWindowMs < Last.ts

C7_NoDuplicateEdges ==
    \A i, j \in 1..Len(edges) :
        (/\ edges[i].edge_type = edges[j].edge_type
         /\ edges[i].from = edges[j].from
         /\ edges[i].to = edges[j].to) => i = j

\* C7 witness: a compute event asks again for a Consumes edge the graph
\* already had, and the edge is there afterwards.
C7_Witness ==
    /\ Ingested /\ Last.event_type = "compute.util" /\ Last.pid # None
    /\ <<PidStr(Last.pid[1]), Last.entity_id>> \in EdgePairs(prev.edges, "Consumes")
    /\ <<PidStr(Last.pid[1]), Last.entity_id>> \in EdgePairs(edges, "Consumes")

\* C8: after a compute.*, transport.* or storage.* event that carries pid p
\* and entity e, a Consumes edge pid-p -> e is in the graph.
C8_MetricWithPidConsumes ==
    (Ingested /\ Last.event_type \in MetricTypes /\ Last.pid # None) =>
        <<PidStr(Last.pid[1]), Last.entity_id>> \in EdgePairs(edges, "Consumes")

\* the value denotes a stall: numeric below 1.0, or the literal IO_WAIT
DenotesStall(value) == value = "IO_WAIT" \/ ParsedBelowOne(value)

\* C9: after a transport.drop event with a pid, or a transport.bw,
\* storage.iops or storage.qdepth event with a pid whose value denotes a
\* stall, a WaitsOn edge pid-p -> entity is in the graph; a transport.bw or
\* storage.* event whose value denotes no stall adds no WaitsOn edge.
C9_StallWaitsOn ==
    Ingested =>
        LET stalls == \/ Last.event_type = "transport.drop"
                      \/ /\ Last.event_type \in
                              {"transport.bw", "storage.iops", "storage.qdepth"}
                         /\ DenotesStall(Last.value)
        IN  /\ (Last.event_type \in MetricTypes /\ Last.pid # None /\ stalls) =>
                 <<PidStr(Last.pid[1]), Last.entity_id>> \in EdgePairs(edges, "WaitsOn")
            /\ (Last.event_type \in {"transport.bw", "storage.iops", "storage.qdepth"}
                  /\ ~stalls) =>
                 EdgePairs(edges, "WaitsOn") \subseteq EdgePairs(prev.edges, "WaitsOn")

StartsWith(str, prefix) ==
    Len(str) >= Len(prefix) /\ SubSeq(str, 1, Len(prefix)) = prefix

\* root_cause(p) for every pid p: one "x: v" per BlockedBy edge pid-p -> x
\* into an error node with error_type v, one prefix \o r per WaitsOn edge
\* pid-p -> r, the former before the latter, nothing when pid-p has neither
\* kind of edge
RootCauseAsDescribed(prefix) ==
    \A p \in Pids :
        LET causes  == FindRootCause(Graph(nodes, edges), p)
            blocked == TargetsOutOf(edges, "BlockedBy", PidStr(p))
            waits   == TargetsOutOf(edges, "WaitsOn", PidStr(p))
        IN  /\ \A x \in blocked :
                  (/\ x \in DOMAIN nodes
                   /\ nodes[x].node_type = "Error"
                   /\ "error_type" \in DOMAIN nodes[x].metadata) =>
                      (x \o ": " \o nodes[x].metadata["error_type"]) \in Range(causes)
            /\ \A r \in waits : (prefix \o r) \in Range(causes)
            /\ \A i, j \in 1..Len(causes) :
                  (i < j /\ StartsWith(causes[i], prefix)) =>
                      StartsWith(causes[j], prefix)
            /\ (blocked = {} /\ waits = {}) => causes = <<>>

\* the literal outputs of S1 and S2, with mlx5_0's cause spelled wait
RootCauseOfScenarios(wait) ==
    /\ (/\ "error-gpu-0" \in TargetsOutOf(edges, "BlockedBy", "pid-1")
        /\ nodes["error-gpu-0"].metadata = [error_type |-> "XID_79"]) =>
           "error-gpu-0: XID_79" \in Range(FindRootCause(Graph(nodes, edges), 1))
    /\ "mlx5_0" \in TargetsOutOf(edges, "WaitsOn", "pid-2") =>
           wait \in Range(FindRootCause(Graph(nodes, edges), 2))

GraphIdle == InitCommon /\ scope = "none"

\* edges of the graph a call runs on
MaxDfsEdges == 3
\* frames on the stack of dfs_backward
MaxDfsDepth == 6

DfsNodes ==
    [x \in {"pid-1", "error-a", "error-b"} |->
        CASE x = "pid-1"   -> Node(x, "Process", 1000, [state |-> "running"])
          [] x = "error-a" -> Node(x, "Error", 1000, [error_type |-> "XID_79"])
          [] x = "error-b" -> Node(x, "Error", 1000, EmptyMap)]

\* "error-gone" is the id of no node
DfsEdgeChoices ==
    {Edge("BlockedBy", pr[1], pr[2], 1000) :
        pr \in {<<"pid-1", "error-a">>, <<"pid-1", "error-b">>,
                <<"pid-1", "error-gone">>, <<"error-a", "error-b">>,
                <<"error-b", "error-a">>, <<"error-b", "pid-1">>,
                <<"error-a", "error-a">>}}
    \cup {Edge("WaitsOn", "pid-1", "mlx5_0", 1000),
          Edge("WaitsOn", "error-a", "mlx5_0", 1000)}

DfsEdgeSeqs == UNION {[1..n -> DfsEdgeChoices] : n \in 0..MaxDfsEdges}

Frame(node_id, i) == [node_id |-> node_id, i |-> i]

\* mutant of AlreadyVisited: dfs_backward without its visited test
AlreadyVisitedNever(visited, node_id) == FALSE

\* visited.contains(node_id)
AlreadyVisited(visited, node_id) == node_id \in visited

InitDfs ==
    /\ GraphIdle /\ IdleExcept({"dfs"})
    /\ \E es \in DfsEdgeSeqs :
          dfs = [phase |-> "ready", es |-> es, ns |-> DfsNodes, pid |-> 0,
                 stack |-> <<>>, visited |-> {}, causes |-> <<>>,
                 expanded |-> <<>>]

Top == dfs.stack[Len(dfs.stack)]
Pop(stack) == SubSeq(stack, 1, Len(stack) - 1)
SetTop(stack, fr) == [stack EXCEPT ![Len(stack)] = fr]

\* the phase after a frame was popped: the call is over with the last one
PhaseAfter(stack) == IF stack = <<>> THEN "done" ELSE "running"

\* find_root_cause(pid): empty visited and causes, first call of dfs_backward
DfsCall ==
    \E pid \in Pids :
        /\ dfs.phase = "ready"
        /\ dfs' = [dfs EXCEPT !.phase = "running", !.pid = pid,
                              !.stack = <<Frame(PidStr(pid), 0)>>]
        /\ UNCHANGED <<graphVars, batch, bus, rpc, hub, comp>>

\* if visited.contains(node_id) { return; }
DfsReturnVisited ==
    /\ dfs.phase = "running"
    /\ Top.i = 0
    /\ AlreadyVisited(dfs.visited, Top.node_id)
    /\ dfs' = [dfs EXCEPT !.stack = Pop(@), !.phase = PhaseAfter(Pop(dfs.stack))]
    /\ UNCHANGED <<graphVars, batch, bus, rpc, hub, comp>>

\* visited.insert(node_id), then the BlockedBy loop starts
DfsExpand ==
    /\ dfs.phase = "running"
    /\ Top.i = 0
    /\ ~AlreadyVisited(dfs.visited, Top.node_id)
    /\ dfs' = [dfs EXCEPT !.visited = @ \cup {Top.node_id},
                          !.expanded = Append(@, Top.node_id),
                          !.stack = SetTop(@, Frame(Top.node_id, 1))]
    /\ UNCHANGED <<graphVars, batch, bus, rpc, hub, comp>>

\* the edge the BlockedBy loop of the top frame looks at leads to a node:
\* push its cause if it is an Error, then call dfs_backward on it
DfsRecurse ==
    /\ dfs.phase = "running"
    /\ Top.i >= 1 /\ Top.i <= Len(dfs.es)
    /\ Len(dfs.stack) < MaxDfsDepth
    /\ LET edge == dfs.es[Top.i]
       IN  /\ edge.edge_type = "BlockedBy" /\ edge.from = Top.node_id
           /\ edge.to \in DOMAIN dfs.ns
           /\ LET node == dfs.ns[edge.to]
                  causes1 == IF node.node_type = "Error"
                             THEN Append(dfs.causes, ErrorDesc(edge.to, node))
                             ELSE dfs.causes
              IN  dfs' = [dfs EXCEPT
                            !.causes = causes1,
                            !.stack = Append(SetTop(@, Frame(Top.node_id, Top.i + 1)),
                                             Frame(edge.to, 0))]
    /\ UNCHANGED <<graphVars, batch, bus, rpc, hub, comp>>

\* the edge is of another kind, leaves another node or leads to no node
DfsSkipEdge ==
    /\ dfs.phase = "running"
    /\ Top.i >= 1 /\ Top.i <= Len(dfs.es)
    /\ LET edge == dfs.es[Top.i]
       IN  ~(/\ edge.edge_type = "BlockedBy" /\ edge.from = Top.node_id
             /\ edge.to \in DOMAIN dfs.ns)
    /\ dfs' = [dfs EXCEPT !.stack = SetTop(@, Frame(Top.node_id, Top.i + 1))]
    /\ UNCHANGED <<graphVars, batch, bus, rpc, hub, comp>>

\* the BlockedBy loop is over: the WaitsOn loop, then the return
DfsWaitsOnAndReturn ==
    /\ dfs.phase = "running"
    /\ Top.i > Len(dfs.es)
    /\ dfs' = [dfs EXCEPT !.causes = @ \o WaitsOnCauses(dfs.es, Top.node_id),
                          !.stack = Pop(@),
                          !.phase = PhaseAfter(Pop(dfs.stack))]
    /\ UNCHANGED <<graphVars, batch, bus, rpc, hub, comp>>

NextDfs ==
    \/ DfsCall
    \/ DfsReturnVisited
    \/ DfsExpand
    \/ DfsRecurse
    \/ DfsSkipEdge
    \/ DfsWaitsOnAndReturn

\* a call of find_root_cause is one sequential computation: each of its
\* steps is taken once it is enabled
SpecDfs == InitDfs /\ [][NextDfs]_vars /\ WF_vars(NextDfs)

\* the BlockedBy edges of the call's graph form a cycle through node x
OnBlockedByCycle(x) ==
    \E i, j \in 1..Len(dfs.es) :
        /\ dfs.es[i].edge_type = "BlockedBy" /\ dfs.es[j].edge_type = "BlockedBy"
        /\ dfs.es[i].from = x /\ dfs.es[i].to = dfs.es[j].from
        /\ dfs.es[j].to = x

NoNodeExpandedTwice ==
    dfs.phase \in {"running", "done"} =>
        \A i, j \in 1..Len(dfs.expanded) :
            dfs.expanded[i] = dfs.expanded[j] => i = j

\* C11: for every pid and every graph, cyclic ones included, the call of
\* root_cause(pid) comes to its end, and no node is expanded (entered past
\* the visited test) more than once during the call.
C11_TerminatesExpandingOnce ==
    /\ []NoNodeExpandedTwice
    /\ <>(dfs.phase = "done")

\* C11 witness: a call is over on a graph with a BlockedBy cycle through an
\* expanded node; the call expanded three nodes and its causes are those of
\* find_root_cause.
C11_Witness ==
    /\ dfs.phase = "done"
    /\ \E x \in Range(dfs.expanded) : OnBlockedByCycle(x)
    /\ Len(dfs.expanded) = 3
    /\ dfs.causes = FindRootCause(Graph(dfs.ns, dfs.es), dfs.pid)

(***************************************************************************)
(* An event batch fed to process_event twice: every event of the batch in  *)
(* order, then every event again in the same order.  batch.once is the     *)
(* graph after the first pass.                                             *)
(***************************************************************************)
\* events per batch
MaxBatchLen == 3

\* the events of S1..S4, and the error of S1 arriving before its consumer
EarlyError == Event(1005, "error.hw", "gpu-0", None, None, "XID_79")

BatchEvents == ScenarioEvents \cup {EarlyError}

Batches == UNION {[1..n -> BatchEvents] : n \in 1..MaxBatchLen}

InitBatch ==
    /\ InitCommon /\ scope = "batch" /\ IdleExcept({"batch"})
    /\ \E B \in Batches :
          batch = [phase |-> "first", events |-> B, pos |-> 1, once |-> NewGraph]

\* one process_event call of the replay; after the last event of the first
\* pass the graph is kept in batch.once and the second pass starts
ReplayEvent(pass) ==
    /\ batch.phase = pass
    /\ LET event == batch.events[batch.pos]
           g == ProcessEvent(Graph(nodes, edges), event)
           last == batch.pos = Len(batch.events)
       IN  /\ nodes' = g.nodes /\ edges' = g.edges
           /\ prev' = Graph(nodes, edges)
           /\ lastEv' = Some(event)
           /\ batch' = [batch EXCEPT
                 !.pos = IF last THEN 1 ELSE @ + 1,
                 !.phase = IF ~last THEN @
                           ELSE IF pass = "first" THEN "second" ELSE "done",
                 !.once = IF last /\ pass = "first" THEN g ELSE @]
    /\ nEvents' = nEvents + 1
    /\ UNCHANGED <<hist, answer, scope, dfs, bus, rpc, hub, comp>>

IngestFirstPass == ReplayEvent("first")

IngestSecondPass == ReplayEvent("second")

NextBatch == IngestFirstPass \/ IngestSecondPass

SpecBatch == InitBatch /\ [][NextBatch]_vars

\* the nodes of a graph without last_update
NodesModuloTime(g) ==
    {[id |-> n.id, node_type |-> n.node_type, metadata |-> n.metadata] :
        n \in {g.nodes[id] : id \in DOMAIN g.nodes}}

\* the edges of a graph without their timestamps
EdgesModuloTime(g) ==
    {[edge_type |-> e.edge_type, from |-> e.from, to |-> e.to] : e \in Range(g.edges)}

\* C12: once a batch has been ingested twice in the same order, the graph
\* has the same nodes (id, kind, attributes) and the same edges (kind, from,
\* to) as it had after the first pass.
C12_BatchTwiceSameGraph ==
    batch.phase = "done" =>
        /\ NodesModuloTime(Graph(nodes, edges)) = NodesModuloTime(batch.once)
        /\ EdgesModuloTime(Graph(nodes, edges)) = EdgesModuloTime(batch.once)

(***************************************************************************)
(* The probe adapter (SubprocessProbe::start_stream), the event bus        *)
(* (EventBus, a tokio mpsc::channel(capacity)) and the consumer loop of    *)
(* run_daemon.                                                             *)
(*                                                                         *)
(* bus.child is the probe process: the lines it will write (its script)    *)
(* and the index of the next one.  bus.pipe is its stdout, bus.adapter the *)
(* position of start_stream, bus.queue the channel.  bus.written,          *)
(* bus.sent and bus.ingested record the lines written, the events whose    *)
(* send completed and the events handed to process_event; bus.resumed      *)
(* counts the sends that completed after waiting on a full channel.        *)
(***************************************************************************)
\* capacity of the channel (EventBus::new(1000) in run_daemon)
BusCapacity == 2
\* lines a probe process writes
MaxLines == 3
\* probe processes spawned by the supervision loop
MaxSpawns == 1

\* a line of the probe's stdout: a JSON event, text that is no JSON event,
\* a blank line, or bytes that are not UTF-8
LineKinds == {"event", "not_json", "blank", "bad_utf8"}

Scripts == UNION {[1..n -> LineKinds] : n \in 0..MaxLines}

\* the event on line i of the probe process number gen
EventOfLine(gen, i) ==
    Event(1000 * gen + i, "compute.util", "gpu-0", None, Some(1), ToString(i))

Line(kind, gen, i) == [kind |-> kind, gen |-> gen, i |-> i]

\* reader.read_line: Err for bytes that are not UTF-8
ReadLineFails(line) == line.kind = "bad_utf8"

\* line_buf.trim().is_empty()
IsEmptyLine(line) == line.kind = "blank"

\* serde_json::from_str::<Event>(line)
ParseEvent(line) ==
    IF line.kind = "event" THEN Some(EventOfLine(line.gen, line.i)) ELSE None

\* mutant of HasCapacity: a channel without a bound
HasCapacityAlways(queue) == TRUE

\* mpsc::channel(capacity): a send completes only while the channel holds
\* fewer than capacity messages
HasCapacity(queue) == Len(queue) < BusCapacity

InitBus ==
    /\ InitCommon /\ scope = "bus" /\ IdleExcept({"bus"})
    /\ \E script \in Scripts :
          bus = [phase |-> "running",
                 child |-> [state |-> "none", gen |-> 0, script |-> script, next |-> 1],
                 pipe |-> <<>>,
                 adapter |-> [pc |-> "spawn", pending |-> None, waited |-> FALSE],
                 queue |-> <<>>,
                 written |-> <<>>, sent |-> <<>>, ingested |-> <<>>,
                 resumed |-> 0]

BusRunning == bus.phase = "running"

\* start_stream: Command::new(..).spawn(), BufReader over the child's stdout
AdapterSpawn ==
    /\ BusRunning /\ bus.adapter.pc = "spawn"
    /\ bus.child.gen < MaxSpawns
    /\ bus' = [bus EXCEPT !.child.state = "running", !.child.gen = @ + 1,
                          !.child.next = 1, !.pipe = <<>>, !.adapter.pc = "read"]
    /\ UNCHANGED <<graphVars, dfs, batch, rpc, hub, comp>>

\* the probe process writes its next line
ProbeWriteLine ==
    /\ BusRunning /\ bus.child.state = "running"
    /\ bus.child.next <= Len(bus.child.script)
    /\ LET line == Line(bus.child.script[bus.child.next], bus.child.gen, bus.child.next)
       IN  bus' = [bus EXCEPT !.pipe = Append(@, line),
                              !.written = Append(@, line),
                              !.child.next = @ + 1]
    /\ UNCHANGED <<graphVars, dfs, batch, rpc, hub, comp>>

\* the probe process exits after its last line
ProbeExit ==
    /\ BusRunning /\ bus.child.state = "running"
    /\ bus.child.next > Len(bus.child.script)
    /\ bus' = [bus EXCEPT !.child.state = "exited"]
    /\ UNCHANGED <<graphVars, dfs, batch, rpc, hub, comp>>

\* read_line gives an empty line (continue) or a line serde_json rejects
\* (logged, next line)
AdapterSkipLine ==
    /\ BusRunning /\ bus.adapter.pc = "read" /\ bus.pipe # <<>>
    /\ LET line == Head(bus.pipe)
       IN  /\ ~ReadLineFails(line)
           /\ IsEmptyLine(line) \/ ParseEvent(line) = None
    /\ bus' = [bus EXCEPT !.pipe = Tail(@)]
    /\ UNCHANGED <<graphVars, dfs, batch, rpc, hub, comp>>

\* read_line gives a line that parses: tx.send(event) starts
AdapterParseEvent ==
    /\ BusRunning /\ bus.adapter.pc = "read" /\ bus.pipe # <<>>
    /\ LET line == Head(bus.pipe)
       IN  /\ ~ReadLineFails(line) /\ ~IsEmptyLine(line)
           /\ ParseEvent(line) # None
           /\ bus' = [bus EXCEPT !.pipe = Tail(@), !.adapter.pc = "send",
                                 !.adapter.pending = ParseEvent(line),
                                 !.adapter.waited = FALSE]
    /\ UNCHANGED <<graphVars, dfs, batch, rpc, hub, comp>>

\* read_line gives Err: break out of the read loop, to child.wait()
AdapterReadError ==
    /\ BusRunning /\ bus.adapter.pc = "read" /\ bus.pipe # <<>>
    /\ ReadLineFails(Head(bus.pipe))
    /\ bus' = [bus EXCEPT !.pipe = Tail(@), !.adapter.pc = "wait"]
    /\ UNCHANGED <<graphVars, dfs, batch, rpc, hub, comp>>

\* read_line gives Ok(0): the child closed its stdout
AdapterReadEof ==
    /\ BusRunning /\ bus.adapter.pc = "read" /\ bus.pipe = <<>>
    /\ bus.child.state = "exited"
    /\ bus' = [bus EXCEPT !.adapter.pc = "wait"]
    /\ UNCHANGED <<graphVars, dfs, batch, rpc, hub, comp>>

\* tx.send(event).await completes
AdapterSend ==
    /\ BusRunning /\ bus.adapter.pc = "send"
    /\ HasCapacity(bus.queue)
    /\ bus' = [bus EXCEPT !.queue = Append(@, bus.adapter.pending[1]),
                          !.sent = Append(@, bus.adapter.pending[1]),
                          !.resumed = IF bus.adapter.waited THEN @ + 1 ELSE @,
                          !.adapter = [pc |-> "read", pending |-> None, waited |-> FALSE]]
    /\ UNCHANGED <<graphVars, dfs, batch, rpc, hub, comp>>

\* child.wait() returns, sleep of 1 s, next round of the supervision loop:
\* the reader of the old stdout is dropped with what it had not read
AdapterChildExited ==
    /\ BusRunning /\ bus.adapter.pc = "wait"
    /\ bus.child.state = "exited"
    /\ bus' = [bus EXCEPT !.adapter.pc = "spawn", !.pipe = <<>>]
    /\ UNCHANGED <<graphVars, dfs, batch, rpc, hub, comp>>

\* run_daemon: rx.recv() gives Some(event), graph.process_event(&event)
GraphRecv ==
    /\ BusRunning /\ bus.queue # <<>>
    /\ LET event == Head(bus.queue)
           g == ProcessEvent(Graph(nodes, edges), event)
       IN  /\ nodes' = g.nodes /\ edges' = g.edges
           /\ prev' = Graph(nodes, edges)
           /\ lastEv' = Some(event)
           /\ bus' = [bus EXCEPT
                 !.queue = Tail(@),
                 !.ingested = Append(@, event),
                 !.adapter.waited =
                     @ \/ (bus.adapter.pc = "send" /\ ~HasCapacity(bus.queue))]
    /\ nEvents' = nEvents + 1
    /\ UNCHANGED <<hist, answer, scope, dfs, batch, rpc, hub, comp>>

NextBus ==
    \/ AdapterSpawn
    \/ ProbeWriteLine
    \/ ProbeExit
    \/ AdapterSkipLine
    \/ AdapterParseEvent
    \/ AdapterReadError
    \/ AdapterReadEof
    \/ AdapterSend
    \/ AdapterChildExited
    \/ GraphRecv

\* the runtime runs a task that can make progress: the consumer loop while
\* the channel holds an event, the adapter's send while there is room
SpecBus ==
    InitBus /\ [][NextBus]_vars /\ WF_vars(GraphRecv) /\ WF_vars(AdapterSend)

\* the producer is inside tx.send(event).await and the channel is full
SendSuspended == BusRunning /\ bus.adapter.pc = "send" /\ ~HasCapacity(bus.queue)

\* nothing sent is dropped, overwritten or reordered: what was sent is what
\* was received followed by what the channel holds
NothingLost == BusRunning => bus.sent = bus.ingested \o bus.queue

\* a step from a state with a suspended send is a recv of exactly the oldest
\* event, after which the send can complete, or leaves producer and channel
\* as they are
SuspendedUntilRecv ==
    SendSuspended =>
        \/ /\ bus'.queue = Tail(bus.queue)
           /\ bus'.ingested = Append(bus.ingested, Head(bus.queue))
           /\ bus'.adapter.pc = "send"
           /\ bus'.adapter.pending = bus.adapter.pending
           /\ HasCapacity(bus'.queue)
        \/ /\ bus'.queue = bus.queue
           /\ bus'.adapter.pc = "send"
           /\ bus'.adapter.pending = bus.adapter.pending

\* C13: the channel never holds more than its capacity N; with N events in
\* it a further send stays suspended, nothing being dropped or overwritten,
\* until the consumer's recv; after one recv the send can complete, and it
\* does.
C13_FullBusSuspendsSender ==
    /\ [](BusRunning => Len(bus.queue) <= BusCapacity)
    /\ []NothingLost
    /\ [][SuspendedUntilRecv]_vars
    /\ (SendSuspended ~> (bus.adapter.pc # "send"))

\* C13 witness: a send that waited on a full channel has completed after a
\* recv, and the channel is full again.
C13_Witness ==
    /\ BusRunning
    /\ bus.resumed >= 1
    /\ Len(bus.queue) = BusCapacity
    /\ Len(bus.ingested) = 1
    /\ Len(bus.sent) = BusCapacity + 1

\* the events of the lines that are JSON events, in the order of the lines
WellFormedEvents(lines) ==
    LET ok(line) == line.kind = "event"
        sel == SelectSeq(lines, ok)
    IN  [k \in 1..Len(sel) |-> EventOfLine(sel[k].gen, sel[k].i)]

IsPrefix(s, t) == Len(s) <= Len(t) /\ SubSeq(t, 1, Len(s)) = s

\* the adapter is done with every probe process spawned so far and the
\* consumer has emptied the channel
StreamsOver ==
    /\ BusRunning /\ bus.child.state = "exited"
    /\ bus.adapter.pc = "spawn" /\ bus.queue = <<>>

\* C14: the events the graph ingests are, in order, the events of the
\* well-formed JSON lines the probe wrote: at any time a prefix of them, and
\* all of them once the probe has exited and its stream is consumed,
\* whatever malformed or empty lines lie in between.
C14_IngestsWellFormedLinesInOrder ==
    BusRunning =>
        /\ IsPrefix(bus.ingested, WellFormedEvents(bus.written))
        /\ StreamsOver => bus.ingested = WellFormedEvents(bus.written)

(***************************************************************************)
(* One connection of the local RPC server (handle_client_unix).            *)
(*                                                                         *)
(* rpc.inbuf is the byte stream from the client, as a sequence of          *)
(* segments: a 4-byte length prefix (Header) or the bytes of a request     *)
(* body (Body, with the number of bytes left and the offset of the next    *)
(* one).  rpc.frames records the requests the client has sent, rpc.out the *)
(* responses the server has sent, rpc.pc the server's position: "len"      *)
(* before read_u32, "body" before read_exact of rpc.n bytes.               *)
(***************************************************************************)
\* const MAX_REQUEST_SIZE: u32 = 10 * 1024 * 1024
MaxRequestSize == 10485760

\* requests a client sends on one connection
MaxRequests == 3
\* responses after which the connection is no longer followed
MaxResponses == 4

\* the requests of a client: three well-formed ones, a method the server
\* does not know, a body that is no JSON, a request of MaxRequestSize + 1
\* bytes, the length prefix of such a request without its body, and a
\* request of length 0
WellFormedKinds == {"ping", "why_process_1", "why_process_2"}
UnparsableKinds == {"unknown_method", "not_json"}
FrameKinds ==
    WellFormedKinds \cup UnparsableKinds
    \cup {"oversize", "oversize_prefix_only", "zero_length"}

\* the number of bytes of the body of a request
BodyLen(kind) ==
    CASE kind = "ping"           -> 17   \* {"method":"ping"}
      [] kind = "why_process_1"  -> 32   \* {"method":"why_process","pid":1}
      [] kind = "why_process_2"  -> 32
      [] kind = "unknown_method" -> 19   \* {"method":"reboot"}
      [] kind = "not_json"       -> 4    \* ping
      [] kind = "oversize"       -> MaxRequestSize + 1
      [] kind = "oversize_prefix_only" -> MaxRequestSize + 1
      [] kind = "zero_length"    -> 0

Header(n) == [seg |-> "header", n |-> n]
Body(kind, len, off) == [seg |-> "body", kind |-> kind, len |-> len, off |-> off]

\* IpcClient::call: write_u32(len), write_all(body)
FrameBytes(kind) ==
    IF kind \in {"oversize_prefix_only", "zero_length"}
    THEN <<Header(BodyLen(kind))>>
    ELSE <<Header(BodyLen(kind)), Body(kind, BodyLen(kind), 0)>>

\* the big-endian u32 of four bytes of JSON text: {"me at the start of a
\* body (0x7B226D65), xxxx inside the padding of an oversize one (0x78787878)
TextAsU32(off) == IF off = 0 THEN 2065853797 ELSE 2021161080

\* serde_json::from_slice::<RpcRequest>
ParseRequest(kind) ==
    CASE kind = "ping"          -> Some([method |-> "ping"])
      [] kind = "why_process_1" -> Some([method |-> "why_process", pid |-> 1])
      [] kind = "why_process_2" -> Some([method |-> "why_process", pid |-> 2])
      [] OTHER                  -> None

\* handle_request (list_processes is not among the requests of the model)
HandleRequest(request, g) ==
    IF request.method = "ping" THEN [status |-> "ok"]
    ELSE [pid |-> request.pid, causes |-> FindRootCause(g, request.pid)]

RpcSuccess(data) == [success |-> TRUE, data |-> Some(data), error |-> None]
RpcError(msg) == [success |-> FALSE, data |-> None, error |-> Some(msg)]

RECURSIVE ProcessAll(_, _)
ProcessAll(g, events) ==
    IF events = <<>> THEN g
    ELSE ProcessAll(ProcessEvent(g, Head(events)), Tail(events))

\* the graph the server answers from: S1 and S2 ingested
RpcGraph == ProcessAll(NewGraph, S1 \o S2)

InitRpc ==
    /\ nodes = RpcGraph.nodes /\ edges = RpcGraph.edges
    /\ prev = NewGraph /\ lastEv = None /\ nEvents = 0 /\ hist = <<>>
    /\ answer = None /\ scope = "rpc"
    /\ IdleExcept({"rpc"})
    /\ rpc = [phase |-> "open", frames |-> <<>>, inbuf |-> <<>>,
              pc |-> "len", n |-> 0, out |-> <<>>]

RpcOpen == rpc.phase = "open"

\* the client writes one request on the connection
ClientSend ==
    \E kind \in FrameKinds :
        /\ RpcOpen /\ Len(rpc.frames) < MaxRequests
        /\ rpc' = [rpc EXCEPT !.frames = Append(@, kind),
                              !.inbuf = @ \o FrameBytes(kind)]
        /\ UNCHANGED <<graphVars, dfs, batch, bus, hub, comp>>

\* stream.read_u32(): the next four bytes of the stream, whatever they are
NextU32 ==
    IF Head(rpc.inbuf).seg = "header" THEN Head(rpc.inbuf).n
    ELSE TextAsU32(Head(rpc.inbuf).off)

AfterU32 ==
    LET h == Head(rpc.inbuf)
    IN  IF h.seg = "header" \/ h.len = 4 THEN Tail(rpc.inbuf)
        ELSE <<Body(h.kind, h.len - 4, h.off + 4)>> \o Tail(rpc.inbuf)

\* four bytes are there to be read (a read across two segments is beyond
\* MaxResponses and not followed)
CanReadU32 ==
    /\ RpcOpen /\ rpc.pc = "len" /\ rpc.inbuf # <<>>
    /\ Head(rpc.inbuf).seg = "body" => Head(rpc.inbuf).len >= 4
    /\ Len(rpc.out) < MaxResponses

\* n == 0: break, the handler returns and the stream is dropped
ServerCloseOnZero ==
    /\ CanReadU32 /\ NextU32 = 0
    /\ rpc' = [rpc EXCEPT !.phase = "closed", !.inbuf = AfterU32]
    /\ UNCHANGED <<graphVars, dfs, batch, bus, hub, comp>>

\* n > MAX_REQUEST_SIZE: error response, continue
ServerRejectOversize ==
    /\ CanReadU32 /\ NextU32 > MaxRequestSize
    /\ rpc' = [rpc EXCEPT !.inbuf = AfterU32,
                          !.out = Append(@, RpcError("too_large"))]
    /\ UNCHANGED <<graphVars, dfs, batch, bus, hub, comp>>

\* a length within the limit: on to read_exact
ServerAcceptLength ==
    /\ CanReadU32 /\ NextU32 > 0 /\ NextU32 <= MaxRequestSize
    /\ rpc' = [rpc EXCEPT !.inbuf = AfterU32, !.pc = "body", !.n = NextU32]
    /\ UNCHANGED <<graphVars, dfs, batch, bus, hub, comp>>

\* read_exact has its rpc.n bytes: the whole body of one request
BodyRead ==
    /\ RpcOpen /\ rpc.pc = "body" /\ rpc.inbuf # <<>>
    /\ Head(rpc.inbuf).seg = "body"
    /\ Head(rpc.inbuf).off = 0 /\ Head(rpc.inbuf).len = rpc.n

\* serde_json::from_slice fails: error response, continue
ServerParseError ==
    /\ BodyRead /\ ParseRequest(Head(rpc.inbuf).kind) = None
    /\ rpc' = [rpc EXCEPT !.inbuf = Tail(@), !.pc = "len",
                          !.out = Append(@, RpcError("parse"))]
    /\ UNCHANGED <<graphVars, dfs, batch, bus, hub, comp>>

\* the request parses: handle_request, success response
ServerHandleRequest ==
    /\ BodyRead /\ ParseRequest(Head(rpc.inbuf).kind) # None
    /\ LET request == ParseRequest(Head(rpc.inbuf).kind)[1]
           data == HandleRequest(request, Graph(nodes, edges))
       IN  rpc' = [rpc EXCEPT !.inbuf = Tail(@), !.pc = "len",
                              !.out = Append(@, RpcSuccess(data))]
    /\ UNCHANGED <<graphVars, dfs, batch, bus, hub, comp>>

NextRpc ==
    \/ ClientSend
    \/ ServerCloseOnZero
    \/ ServerRejectOversize
    \/ ServerAcceptLength
    \/ ServerParseError
    \/ ServerHandleRequest

SpecRpc == InitRpc /\ [][NextRpc]_vars

\* what the client is owed for a request: the request's own result, or an
\* error response
AnswersRequest(response, kind) ==
    IF kind \in WellFormedKinds
    THEN response = RpcSuccess(HandleRequest(ParseRequest(kind)[1], RpcGraph))
    ELSE ~response.success

\* C15: on a connection whose requests are well-formed, unparsable or
\* declare more than 10 MiB, the connection stays open and the responses
\* are, in order, one per request: an error response for an unparsable or
\* oversize request, its own result for a well-formed one.
C15_ErrorResponseKeepsConnection ==
    (rpc.phase # "idle"
       /\ \A i \in 1..Len(rpc.frames) : rpc.frames[i] # "zero_length") =>
        /\ rpc.phase = "open"
        /\ Len(rpc.out) <= Len(rpc.frames)
        /\ \A i \in 1..Len(rpc.out) : AnswersRequest(rpc.out[i], rpc.frames[i])

(***************************************************************************)
(* The Hub (hub/src/main.rs): the connection registry                      *)
(* (DashMap<String, UnboundedSender<Message>>), the WebSocket sessions     *)
(* (handle_connection), POST /api/v1/fix and the global graph, which is    *)
(* the module's nodes and edges.                                           *)
(*                                                                         *)
(* hub.registry maps a key to the connection whose sender is stored under  *)
(* it.  hub.conn[c] is one connection: its session state ("free" before    *)
(* accept, "open", "closed" after a close frame or the end of the stream,  *)
(* "failed" after a read error), its peer address, the node_id variable of *)
(* handle_connection, whether an event with a node_id has been processed,  *)
(* the messages in its channel, whether the channel's receiver (held by    *)
(* the write task) is alive, and the frames the write task has written.    *)
(* hub.last describes the last step when it answered a fix request or     *)
(* processed a connection's first event with a node_id, hub.frames counts  *)
(* the frames read and hub.fixes the fix requests answered.                *)
(***************************************************************************)
\* frames the Hub reads from its connections under SpecHub
MaxHubFrames == 2
\* POST /api/v1/fix requests
MaxFixes == 2

Conns == {1, 2}
PeerIps == {"10.0.0.1", "10.0.0.2"}
AgentNodeIds == {"node-a"}

\* format!("node-{}", addr.ip())
SyntheticKey(ip) == "node-" \o ip

FreeConn ==
    [state |-> "free", addr |-> "", node_id |-> "", named |-> FALSE,
     channel |-> <<>>, rx |-> FALSE, written |-> <<>>]

\* main: DashMap::new(), no session yet
NewHub(hubScope) ==
    [phase |-> "running", scope |-> hubScope, registry |-> EmptyMap,
     conn |-> [c \in Conns |-> FreeConn],
     last |-> [op |-> "other"], frames |-> 0, fixes |-> 0, why |-> None]

HubRunning == hub.phase = "running"

\* connections.insert(key, tx.clone())
RegistryInsert(reg, key, c) == MapInsert(reg, key, c)
\* connections.remove(&key)
RegistryRemove(reg, key) == MapRemoveAll(reg, {key})

\* mutant of RegistryGet: a lookup that falls back on any registered sender
RegistryGetAny(reg, key) ==
    IF key \in DOMAIN reg THEN Some(reg[key])
    ELSE IF DOMAIN reg = {} THEN None
    ELSE Some(reg[CHOOSE k \in DOMAIN reg : TRUE])

\* conns.get(&req.node_id)
RegistryGet(reg, key) == MapGet(reg, key)

\* handle_connection up to its read loop: accept_async, the channel, the
\* default node_id, connections.insert, the write task
Accept(h, c, ip) ==
    [h EXCEPT !.registry = RegistryInsert(@, SyntheticKey(ip), c),
              !.conn[c] = [state |-> "open", addr |-> ip,
                           node_id |-> SyntheticKey(ip), named |-> FALSE,
                           channel |-> <<>>, rx |-> TRUE, written |-> <<>>],
              !.last = [op |-> "other"]]

\* mutant of StampNodeId: the event is left as it was sent
StampNothing(event, node_id) == event

\* the event as handed to process_event: node_id as sent, or the
\* connection's node_id
StampNodeId(event, node_id) ==
    IF event.node_id # None THEN event ELSE [event EXCEPT !.node_id = Some(node_id)]

\* the registry and the connection after a Text frame that parses as an
\* event: rebinding when the event carries a node_id other than the
\* connection's
Rebind(h, c, event) ==
    LET old == h.conn[c].node_id
    IN  IF event.node_id # None /\ event.node_id[1] # old
        THEN [h EXCEPT !.registry = RegistryInsert(RegistryRemove(@, old),
                                                   event.node_id[1], c),
                       !.conn[c].node_id = event.node_id[1]]
        ELSE h

(***************************************************************************)
(* The global graph.  The Hub's StateGraph (ark_core::graph) is the graph  *)
(* of graph.rs with every id prefixed "<node_id>::" when the event carries *)
(* a node_id: the handler of the event works on the ids of that node_id,   *)
(* cleanup_old_errors on the whole graph.                                  *)
(***************************************************************************)
Namespaced(node_id, id) == node_id \o "::" \o id

InNamespace(node_id, id) == StartsWith(id, node_id \o "::")

StripNamespace(node_id, id) == SubSeq(id, Len(node_id) + 3, Len(id))

\* the part of graph g under node_id, with local ids
LocalGraph(g, node_id) ==
    LET ids == {id \in DOMAIN g.nodes : InNamespace(node_id, id)}
        own(e) == InNamespace(node_id, e.from)
        sel == SelectSeq(g.edges, own)
    IN  Graph([x \in {StripNamespace(node_id, id) : id \in ids} |->
                  [g.nodes[Namespaced(node_id, x)] EXCEPT !.id = x]],
              [i \in 1..Len(sel) |->
                  Edge(sel[i].edge_type, StripNamespace(node_id, sel[i].from),
                       StripNamespace(node_id, sel[i].to), sel[i].ts)])

\* process_event on the global graph
NsProcessEvent(g, event) ==
    IF event.node_id = None THEN ProcessEvent(g, event)
    ELSE
      LET n == event.node_id[1]
          before == LocalGraph(g, n)
          after == Dispatch(before, event)
          added == SubSeq(after.edges, Len(before.edges) + 1, Len(after.edges))
          kept == {id \in DOMAIN g.nodes : ~InNamespace(n, id)}
          ns1 == [id \in kept \cup {Namespaced(n, x) : x \in DOMAIN after.nodes} |->
                    IF id \in kept THEN g.nodes[id]
                    ELSE [after.nodes[StripNamespace(n, id)] EXCEPT !.id = id]]
          es1 == g.edges \o
                    [i \in 1..Len(added) |->
                        Edge(added[i].edge_type, Namespaced(n, added[i].from),
                             Namespaced(n, added[i].to), added[i].ts)]
      IN  CleanupOldErrors(Graph(ns1, es1), event.ts)

\* an event as an Agent sends it: the fields of Event and node_id
HubEvent(node_id, event) ==
    [ts |-> event.ts, event_type |-> event.event_type,
     entity_id |-> event.entity_id, job_id |-> event.job_id, pid |-> event.pid,
     value |-> event.value, node_id |-> node_id]

\* the acknowledgement of a command: an action.exec event
AckEvent == Event(1000, "action.exec", "pid-10", None, Some(10), "GracefulShutdown")

\* the frames an Agent sends under SpecHub: its acknowledgement, with one of
\* the node ids or without
RegistryEvents == {HubEvent(n, AckEvent) : n \in {None} \cup {Some(x) : x \in AgentNodeIds}}

\* the frame POST /api/v1/fix sends
CommandFrame(req) ==
    [intent |-> "fix", target_pid |-> req.target_pid,
     action |-> IF req.action = None THEN "GracefulShutdown" ELSE req.action[1]]

FixRequests ==
    {[node_id |-> n, target_pid |-> 10, action |-> None] :
        n \in AgentNodeIds \cup {SyntheticKey(ip) : ip \in PeerIps}}
    \cup {[node_id |-> "node-a", target_pid |-> 10, action |-> Some("KillProcess")]}

InitHub ==
    /\ InitCommon /\ scope = "hub" /\ IdleExcept({"hub"})
    /\ hub = NewHub("registry")

FramesLeft == hub.scope = "registry" => hub.frames < MaxHubFrames

\* listener.accept(), handle_connection up to the read loop
HubAccept ==
    \E c \in Conns, ip \in PeerIps :
        /\ HubRunning /\ hub.scope = "registry"
        /\ hub.conn[c].state = "free"
        /\ hub' = Accept(hub, c, ip)
        /\ UNCHANGED <<graphVars, dfs, batch, bus, rpc, comp>>

\* read.next() gives a Text frame that parses as an event
HubRecv(c, event) ==
    /\ HubRunning /\ hub.conn[c].state = "open" /\ FramesLeft
    /\ LET h1 == Rebind(hub, c, event)
           stamped == StampNodeId(event, h1.conn[c].node_id)
           g == NsProcessEvent(Graph(nodes, edges), stamped)
       IN  /\ hub' = [h1 EXCEPT
                 !.conn[c].named = @ \/ event.node_id # None,
                 !.frames = @ + 1,
                 !.why = None,
                 !.last = IF event.node_id # None /\ ~hub.conn[c].named
                          THEN [op |-> "first_node_id", c |-> c,
                                node_id |-> event.node_id[1]]
                          ELSE [op |-> "other"]]
           /\ nodes' = g.nodes /\ edges' = g.edges
           /\ prev' = Graph(nodes, edges)
           /\ lastEv' = Some(stamped)
    /\ nEvents' = nEvents + 1
    /\ UNCHANGED <<hist, answer, scope, dfs, batch, bus, rpc, comp>>

HubRecvEvent ==
    \E c \in Conns, event \in RegistryEvents :
        hub.scope = "registry" /\ HubRecv(c, event)

\* a Text frame that does not parse, or a frame of another kind: nothing
HubRecvIgnored ==
    \E c \in Conns :
        /\ HubRunning /\ hub.scope = "registry"
        /\ hub.conn[c].state = "open" /\ FramesLeft
        /\ hub' = [hub EXCEPT !.frames = @ + 1, !.last = [op |-> "other"]]
        /\ UNCHANGED <<graphVars, dfs, batch, bus, rpc, comp>>

\* Message::Close, or read.next() gives None: out of the loop,
\* connections.remove(&node_id), write_task.abort()
HubSessionEnds ==
    \E c \in Conns, how \in {"close_frame", "end_of_stream"} :
        /\ HubRunning /\ hub.scope = "registry"
        /\ hub.conn[c].state = "open"
        /\ hub' = [hub EXCEPT
              !.registry = RegistryRemove(@, hub.conn[c].node_id),
              !.conn[c].state = "closed",
              !.conn[c].rx = FALSE, !.conn[c].channel = <<>>,
              !.last = [op |-> "other"]]
        /\ UNCHANGED <<graphVars, dfs, batch, bus, rpc, comp>>

\* read.next() gives Some(Err(e)): msg? returns from handle_connection; the
\* write task, detached, lives on with its receiver
HubReadError ==
    \E c \in Conns :
        /\ HubRunning /\ hub.scope = "registry"
        /\ hub.conn[c].state = "open"
        /\ hub' = [hub EXCEPT !.conn[c].state = "failed",
                              !.last = [op |-> "other"]]
        /\ UNCHANGED <<graphVars, dfs, batch, bus, rpc, comp>>

\* the write task: rx.recv() gives a message and write.send(msg) succeeds
HubWriteFrame ==
    \E c \in Conns :
        /\ HubRunning /\ hub.conn[c].rx /\ hub.conn[c].channel # <<>>
        /\ hub' = [hub EXCEPT
              !.conn[c].channel = Tail(@),
              !.conn[c].written = Append(@, Head(hub.conn[c].channel)),
              !.last = [op |-> "other"]]
        /\ UNCHANGED <<graphVars, dfs, batch, bus, rpc, comp>>

\* the write task: write.send(msg) fails, break; the receiver is dropped
HubWriteFails ==
    \E c \in Conns :
        /\ HubRunning /\ hub.conn[c].rx /\ hub.conn[c].channel # <<>>
        /\ hub' = [hub EXCEPT !.conn[c].rx = FALSE, !.conn[c].channel = <<>>,
                              !.last = [op |-> "other"]]
        /\ UNCHANGED <<graphVars, dfs, batch, bus, rpc, comp>>

\* POST /api/v1/fix
HubFix ==
    \E req \in FixRequests :
        /\ HubRunning /\ hub.scope = "registry" /\ hub.fixes < MaxFixes
        /\ LET sender == RegistryGet(hub.registry, req.node_id)
               status == IF sender = None THEN 404
                         ELSE IF hub.conn[sender[1]].rx THEN 200 ELSE 500
           IN  hub' = [hub EXCEPT
                 !.conn = IF status = 200
                          THEN [@ EXCEPT ![sender[1]].channel =
                                            Append(@, CommandFrame(req))]
                          ELSE @,
                 !.fixes = @ + 1,
                 !.last = [op |-> "fix", req |-> req, status |-> status]]
        /\ UNCHANGED <<graphVars, dfs, batch, bus, rpc, comp>>

NextHub ==
    \/ HubAccept
    \/ HubRecvEvent
    \/ HubRecvIgnored
    \/ HubSessionEnds
    \/ HubReadError
    \/ HubWriteFrame
    \/ HubWriteFails
    \/ HubFix

SpecHub == InitHub /\ [][NextHub]_vars

\* the step answers a fix request
FixStep == HubRunning /\ hub'.fixes = hub.fixes + 1

ChannelsUnchanged(cs) == \A c \in cs : hub'.conn[c].channel = hub.conn[c].channel

\* the answer to a fix request and its effect on the channels
FixAsSpecified ==
    LET req == hub'.last.req
        status == hub'.last.status
        frame == [intent |-> "fix", target_pid |-> req.target_pid,
                  action |-> IF req.action = None THEN "GracefulShutdown"
                             ELSE req.action[1]]
    IN  IF req.node_id \notin DOMAIN hub.registry
        THEN status = 404 /\ ChannelsUnchanged(Conns)
        ELSE
          LET c == hub.registry[req.node_id]
          IN  \/ /\ status = 200
                 /\ hub'.conn[c].channel = Append(hub.conn[c].channel, frame)
                 /\ ChannelsUnchanged(Conns \ {c})
              \/ /\ status = 500 /\ ~hub.conn[c].rx
                 /\ ChannelsUnchanged(Conns)

\* no step other than the answer to a fix request puts a frame in a channel
NoOtherSend ==
    \A c \in Conns :
        \/ hub'.conn[c].channel = hub.conn[c].channel
        \/ hub'.conn[c].channel = <<>>
        \/ hub.conn[c].channel # <<>> /\ hub'.conn[c].channel = Tail(hub.conn[c].channel)

\* C16: a fix request for node_id n puts exactly one frame {intent: fix,
\* target_pid, action or GracefulShutdown} in the channel of the connection
\* registered under n and in no other and is answered 200; without a
\* connection registered under n it is answered 404 and nothing is sent;
\* when the send fails it is answered 500; no other step of the Hub sends a
\* command.
C16_FixSendsOneCommand ==
    [][IF FixStep THEN FixAsSpecified ELSE HubRunning => NoOtherSend]_vars

\* C16 witness: two sessions are open, a fix request without an action was
\* answered 200, and its frame, with the default action, is in the channel
\* of one connection only.
C16_Witness ==
    /\ HubRunning /\ hub.last.op = "fix" /\ hub.last.status = 200
    /\ hub.last.req.action = None
    /\ \A c \in Conns : hub.conn[c].state = "open"
    /\ \E c \in Conns :
          /\ hub.conn[c].channel =
                <<[intent |-> "fix", target_pid |-> 10, action |-> "GracefulShutdown"]>>
          /\ \A d \in Conns \ {c} : hub.conn[d].channel = <<>>

SessionOver(c) == hub.conn[c].state \in {"closed", "failed"}

\* C17: once the session of a connection is over, by a close frame, the end
\* of the stream or a read error, no key of the registry leads to the
\* connection, and a fix request for its node_id is answered 404 unless
\* another session is open under that node_id.
C17_EndedSessionUnregistered ==
    HubRunning =>
        \A c \in Conns :
            SessionOver(c) =>
                /\ \A k \in DOMAIN hub.registry : hub.registry[k] # c
                /\ (/\ hub.last.op = "fix"
                    /\ hub.last.req.node_id = hub.conn[c].node_id
                    /\ \A d \in Conns :
                          hub.conn[d].state = "open" =>
                              hub.conn[d].node_id # hub.conn[c].node_id)
                      => hub.last.status = 404

\* C18: an open connection that has not yet sent an event with a node_id is
\* registered under the key derived from its peer address; right after its
\* first event with node_id n is processed the registry maps n to the
\* connection and does not hold that key.
C18_SyntheticKeyUntilFirstNodeId ==
    HubRunning =>
        /\ \A c \in Conns :
              (hub.conn[c].state = "open" /\ ~hub.conn[c].named) =>
                  RegistryGet(hub.registry, SyntheticKey(hub.conn[c].addr)) = Some(c)
        /\ hub.last.op = "first_node_id" =>
              /\ RegistryGet(hub.registry, hub.last.node_id) = Some(hub.last.c)
              /\ SyntheticKey(hub.conn[hub.last.c].addr) \notin DOMAIN hub.registry

(***************************************************************************)
(* The global graph under two sessions, and GET /api/v1/why (cluster_why). *)
(* Connection 1 is the session of Agent node-a, connection 2 of Agent      *)
(* node-b.                                                                 *)
(***************************************************************************)
\* events the Hub ingests under SpecHubGraph
MaxGraphEvents == 5

AgentOf(c) == IF c = 1 THEN "node-a" ELSE "node-b"

\* node-a: process 10 of job J, stalled on mlx5_0, using gpu-0, and an error
\* of gpu-0; node-b: process 10 of job K and process 20 of job J, stalls of
\* both on mlx5_0
AgentEvents(c) ==
    IF c = 1
    THEN {Event(1000, "process.state", "proc-10", Some("J"), Some(10), "start"),
          Event(1010, "transport.drop", "mlx5_0", None, Some(10), "7"),
          Event(1010, "compute.util", "gpu-0", None, Some(10), "90"),
          Event(1020, "error.hw", "gpu-0", None, None, "XID_79")}
    ELSE {Event(1000, "process.state", "proc-10", Some("K"), Some(10), "start"),
          Event(1000, "process.state", "proc-20", Some("J"), Some(20), "start"),
          Event(1010, "transport.drop", "mlx5_0", None, Some(10), "7"),
          Event(1010, "transport.drop", "mlx5_0", None, Some(20), "7")}

\* node-a's events carry its node_id, as hub_forwarder sends them; node-b's
\* carry it or leave it out
GraphEvents(c) ==
    {HubEvent(n, e) : n \in (IF c = 1 THEN {} ELSE {None}) \cup {Some(AgentOf(c))},
                      e \in AgentEvents(c)}

InitHubGraph ==
    /\ InitCommon /\ scope = "hub" /\ IdleExcept({"hub"})
    /\ hub = Accept(Accept(NewHub("graph"), 1, "10.0.0.1"), 2, "10.0.0.2")

HubRecvGraphEvent ==
    \E c \in Conns : \E event \in GraphEvents(c) :
        /\ hub.scope = "graph" /\ hub.frames < MaxGraphEvents
        /\ HubRecv(c, event)

\* find_root_cause_by_id: the search of find_root_cause from a full node id
FindRootCauseById(g, id) ==
    DfsBackward(id, g.edges, g.nodes, [visited |-> {}, causes |-> <<>>]).causes

\* the position of the first "::" of s, 0 when there is none
FirstSeparator(s) ==
    LET at == {i \in 1..(Len(s) - 1) : SubSeq(s, i, i + 1) = "::"}
    IN  IF at = {} THEN 0 ELSE CHOOSE i \in at : \A j \in at : i <= j

\* split("::"): parts[0], and parts.get(1)
FirstPart(s) ==
    IF FirstSeparator(s) = 0 THEN s ELSE SubSeq(s, 1, FirstSeparator(s) - 1)

SecondPart(s) ==
    LET rest == SubSeq(s, FirstSeparator(s) + 2, Len(s))
    IN  IF FirstSeparator(s) = 0 THEN None ELSE Some(FirstPart(rest))

\* str::parse::<u32>, for the texts of at most nine digits, which all fit a
\* u32; the pids of the model have two
ParseU32(s) ==
    LET body == IF Len(s) > 0 /\ SubSeq(s, 1, 1) = "+" THEN SubSeq(s, 2, Len(s)) ELSE s
    IN  IF Len(body) > 0 /\ Len(body) <= 9 /\ AllDigits(body)
        THEN Some(DecimalValue(body)) ELSE None

\* the entry of process_list for one process node id, if it has one
ProcessEntry(pid_id) ==
    IF FirstSeparator(pid_id) = 0 THEN None
    ELSE
      LET pid_part == SecondPart(pid_id)[1]
          pid == IF StartsWith(pid_part, "pid-")
                 THEN ParseU32(SubSeq(pid_part, 5, Len(pid_part))) ELSE None
      IN  IF pid = None THEN None
          ELSE Some([node_id |-> FirstPart(pid_id), pid |-> pid[1],
                     node_id_full |-> pid_id])

\* format!("{}: {}", node_name, cause) for a namespaced process id
GlobalCause(pid_id, cause) ==
    IF FirstSeparator(pid_id) = 0 THEN cause ELSE FirstPart(pid_id) \o ": " \o cause

\* mutant of JobPids: the processes of every job
JobPidsOfAnyJob(g, target_job_id) ==
    {id \in DOMAIN g.nodes : g.nodes[id].node_type = "Process"}

\* the ids of the Process nodes whose job_id is target_job_id
JobPids(g, target_job_id) ==
    {id \in DOMAIN g.nodes :
        /\ g.nodes[id].node_type = "Process"
        /\ MapGet(g.nodes[id].metadata, "job_id") = Some(target_job_id)}

\* format!("<U+672A U+627E U+5230> job_id={} <U+7684 U+8FDB U+7A0B>", job)
NotFoundMessage(target_job_id) ==
    "\\u672a\\u627e\\u5230 job_id=" \o target_job_id \o " \\u7684\\u8fdb\\u7a0b"

\* cluster_why; causes, sorted and deduplicated by the code, is the set of
\* its strings, processes the set of the entries of process_list
ClusterWhy(g, target_job_id) ==
    LET job_pids == JobPids(g, target_job_id)
    IN  IF job_pids = {}
        THEN [causes |-> {NotFoundMessage(target_job_id)}, processes |-> {}]
        ELSE [causes |-> UNION {{GlobalCause(id, cause) :
                                    cause \in Range(FindRootCauseById(g, id))} :
                                id \in job_pids},
              processes |-> {ProcessEntry(id)[1] :
                                id \in {x \in job_pids : ProcessEntry(x) # None}}]

\* GET /api/v1/why?job_id=X
HubClusterWhy ==
    \E job \in {"J", "K", "L"} :
        /\ HubRunning /\ hub.scope = "graph"
        /\ hub' = [hub EXCEPT
              !.why = Some([job_id |-> job,
                            answer |-> ClusterWhy(Graph(nodes, edges), job)]),
              !.last = [op |-> "other"]]
        /\ UNCHANGED <<graphVars, dfs, batch, bus, rpc, comp>>

NextHubGraph == HubRecvGraphEvent \/ HubClusterWhy

SpecHubGraph == InitHubGraph /\ [][NextHubGraph]_vars

HubIngested == HubRunning /\ lastEv # None

\* the nodes the last ingest created or changed
NodesWritten ==
    {id \in DOMAIN nodes : id \notin DOMAIN prev.nodes \/ nodes[id] # prev.nodes[id]}

\* the edges the last ingest created
EdgesWritten == {e \in Range(edges) : e \notin Range(prev.edges)}

WhyAnswered == HubRunning /\ hub.why # None

\* the {node_id, pid} of the Process nodes of the global graph with job X
ProcessesOfJob(job) ==
    {[node_id |-> FirstPart(id), pid |-> DecimalValue(SubSeq(SecondPart(id)[1], 5, Len(SecondPart(id)[1])))] :
        id \in {x \in DOMAIN nodes :
                  /\ nodes[x].node_type = "Process"
                  /\ "job_id" \in DOMAIN nodes[x].metadata
                  /\ nodes[x].metadata["job_id"] = job}}

\* the root causes of those processes, each as the Hub reports it: the
\* process's node_id, ": " and the cause that the search from the process
\* returns
CausesOfJob(job) ==
    UNION {{FirstPart(id) \o ": " \o cause :
               cause \in Range(FindRootCauseById(Graph(nodes, edges), id))} :
           id \in {x \in DOMAIN nodes :
                     /\ nodes[x].node_type = "Process"
                     /\ "job_id" \in DOMAIN nodes[x].metadata
                     /\ nodes[x].metadata["job_id"] = job}}

ReportedProcesses ==
    {[node_id |-> p.node_id, pid |-> p.pid] : p \in hub.why[1].answer.processes}

CooldownSecs == 300
\* tasks running handle_irreversible_fault at the same time
MaxTasks == 2
\* faults detected per behaviour
MaxFaults == 3
\* times the clock advances per behaviour
MaxTicks == 2

Tasks == 1..MaxTasks
FaultNodes == {"node-a", "node-b"}
\* the clock advances by a part of the cool-down or by all of it
TickSecs == {100, CooldownSecs}

FreeTask == [pc |-> "free"]

InitK8s ==
    /\ InitCommon /\ scope = "k8s" /\ IdleExcept({"comp"})
    /\ \E enabled \in BOOLEAN :
          comp = [phase |-> "k8s", enabled |-> enabled, now |-> 0, ticks |-> 0,
                  faults |-> 0,
                  processed_nodes |-> [n \in {} |-> 0],
                  task |-> [t \in Tasks |-> FreeTask],
                  \* the taint calls made: node_id and time
                  started |-> <<>>,
                  \* the handlings that returned: node_id, failed call, result,
                  \* logged error, time
                  returned |-> <<>>]

K8sRunning == comp.phase = "k8s"

\* last_time.elapsed() < self.cooldown_duration
InCooldown(processed, node_id, now) ==
    node_id \in DOMAIN processed /\ now - processed[node_id] < CooldownSecs

Return(c, t, failed, result, logged) ==
    [c EXCEPT !.task[t] = FreeTask,
              !.returned = Append(@, [node_id |-> c.task[t].node_id,
                                      failed |-> failed, result |-> result,
                                      logged |-> logged, at |-> c.now])]

\* handle_connection detects a fault of node_id and spawns a task for it
FaultDetected ==
    \E t \in Tasks, node_id \in FaultNodes :
        /\ K8sRunning /\ comp.faults < MaxFaults /\ comp.task[t].pc = "free"
        /\ comp' = [comp EXCEPT !.faults = @ + 1,
                                !.task[t] = [pc |-> "entry", node_id |-> node_id,
                                             evict_failed |-> FALSE]]
        /\ UNCHANGED hostVars

\* if !self.enabled: return Ok(())
SkipDisabled ==
    \E t \in Tasks :
        /\ K8sRunning /\ comp.task[t].pc = "entry" /\ ~comp.enabled
        /\ comp' = Return(comp, t, "none", "Ok", FALSE)
        /\ UNCHANGED hostVars

\* the cool-down test under the read lock
CheckCooldown ==
    \E t \in Tasks :
        /\ K8sRunning /\ comp.task[t].pc = "entry" /\ comp.enabled
        /\ comp' = IF InCooldown(comp.processed_nodes, comp.task[t].node_id, comp.now)
                   THEN Return(comp, t, "suppressed", "Ok", FALSE)
                   ELSE [comp EXCEPT !.task[t].pc = "taint"]
        /\ UNCHANGED hostVars

\* self.taint_node(node_id, fault).await
TaintNode ==
    \E t \in Tasks, ok \in BOOLEAN :
        /\ K8sRunning /\ comp.task[t].pc = "taint"
        /\ LET c1 == [comp EXCEPT
                        !.started = Append(@, [node_id |-> comp.task[t].node_id,
                                               at |-> comp.now])]
           IN  comp' = IF ok THEN [c1 EXCEPT !.task[t].pc = "evict"]
                       ELSE Return(c1, t, "taint", "Err", TRUE)
        /\ UNCHANGED hostVars

\* self.evict_pods_on_node(node_id).await
EvictPods ==
    \E t \in Tasks, ok \in BOOLEAN :
        /\ K8sRunning /\ comp.task[t].pc = "evict"
        /\ comp' = [comp EXCEPT !.task[t].pc = "arm",
                                !.task[t].evict_failed = ~ok]
        /\ UNCHANGED hostVars

\* processed.insert(node_id, Instant::now()) under the write lock; Ok(())
ArmCooldown ==
    \E t \in Tasks :
        /\ K8sRunning /\ comp.task[t].pc = "arm"
        /\ LET c1 == [comp EXCEPT
                        !.processed_nodes =
                            MapInsert(@, comp.task[t].node_id, comp.now)]
           IN  comp' = Return(c1, t,
                              IF comp.task[t].evict_failed THEN "evict" ELSE "none",
                              "Ok", comp.task[t].evict_failed)
        /\ UNCHANGED hostVars

\* time passes
Tick ==
    \E d \in TickSecs :
        /\ K8sRunning /\ comp.ticks < MaxTicks
        /\ comp' = [comp EXCEPT !.now = @ + d, !.ticks = @ + 1]
        /\ UNCHANGED hostVars

NextK8s ==
    \/ FaultDetected
    \/ SkipDisabled
    \/ CheckCooldown
    \/ TaintNode
    \/ EvictPods
    \/ ArmCooldown
    \/ Tick

SpecK8s == InitK8s /\ [][NextK8s]_vars

\* C21: for any node_id, two taint-and-evict sequences are never started
\* within one cool-down window of each other, whatever the interleaving of
\* the tasks that handle the faults.
C21_OneSequencePerWindow ==
    K8sRunning =>
        \A i, j \in 1..Len(comp.started) :
            (i < j /\ comp.started[i].node_id = comp.started[j].node_id) =>
                comp.started[j].at - comp.started[i].at >= CooldownSecs

\* C22: when a handling that was not suppressed has returned after a failed
\* taint or eviction call, the failure was logged and the cool-down of its
\* node_id has been armed at or after the time of the return; a failed
\* eviction is returned as Ok.
C22_FailedCallArmsCooldown ==
    K8sRunning =>
        \A i \in 1..Len(comp.returned) :
            LET r == comp.returned[i]
            IN  r.failed \in {"taint", "evict"} =>
                  /\ r.logged
                  /\ r.node_id \in DOMAIN comp.processed_nodes
                  /\ comp.processed_nodes[r.node_id] >= r.at
                  /\ r.failed = "evict" => r.result = "Ok"

(***************************************************************************)
(* The Agent's edge roll-up filter (HubForwarder::should_forward,          *)
(* src/agent/src/hub_forwarder.rs).  forwarded_bindings is the set of      *)
(* (pid, entity_id) keys already uplinked, last_util_values the value      *)
(* recorded per key; comp.log is the sequence of the events offered to the *)
(* filter with its answers.                                                *)
(***************************************************************************)
\* events offered to the filter before the series of S-values
MaxUplinks == 2

\* the ten compute.util values of pid 3 on gpu-1
UtilSeries == <<"70", "71", "72", "73", "74", "72", "73", "75", "76", "77">>

BindingKinds ==
    {"compute.util", "compute.mem", "storage.iops", "storage.qdepth", "transport.bw"}

\* the kinds filtered by pair with both sides of a sharp transition for the
\* compute kinds, one kind always forwarded and one never
RollupShapes ==
    {<<k, v>> : k \in {"compute.util", "compute.mem"}, v \in {"90", "0.5"}}
    \cup {<<k, "0.5">> : k \in {"storage.iops", "storage.qdepth", "transport.bw",
                                 "error.hw", "intent.run"}}

RollupEvents ==
    {Event(1000, s[1], entity_id, None, pid, s[2]) :
        s \in RollupShapes, entity_id \in {"gpu-1", "nvme0"}, pid \in {None, Some(3)}}

\* x > 80.0 for a parsed number
AboveEighty(x) == ~x.neg /\ (x.int > 80 \/ (x.int = 80 /\ x.frac))

\* mutant of SharpTransition: no change counts as sharp
SharpTransitionNever(last_util, current_util) == FALSE

\* (last_util > 80.0 && current_util < 1.0) || (last_util < 1.0 && current_util > 80.0)
SharpTransition(last_util, current_util) ==
    \/ AboveEighty(last_util) /\ BelowOne(current_util)
    \/ BelowOne(last_util) /\ AboveEighty(current_util)

\* mutant of IsNewBinding: every event is a new binding
IsNewBindingAlways(bindings, binding_key) == TRUE

\* !bindings.contains(&binding_key)
IsNewBinding(bindings, binding_key) == binding_key \notin bindings

\* should_forward: the answer and the two maps after the call
ShouldForward(f, event) ==
    LET binding_key == <<event.pid[1], event.entity_id>>
        util == ParseF64(event.value)
        stay == [forward |-> FALSE, forwarded_bindings |-> f.forwarded_bindings,
                 last_util_values |-> f.last_util_values]
        always == [stay EXCEPT !.forward = TRUE]
    IN  CASE event.event_type \in {"error.hw", "error.net", "process.state",
                                    "transport.drop", "topo.link_down"} -> always
          [] event.event_type \in {"compute.util", "compute.mem"} ->
                IF event.pid = None THEN stay
                ELSE IF IsNewBinding(f.forwarded_bindings, binding_key)
                THEN [forward |-> TRUE,
                      forwarded_bindings |-> f.forwarded_bindings \cup {binding_key},
                      last_util_values |->
                          IF util = None THEN f.last_util_values
                          ELSE MapInsert(f.last_util_values, binding_key, util[1])]
                ELSE IF /\ util # None
                        /\ binding_key \in DOMAIN f.last_util_values
                        /\ SharpTransition(f.last_util_values[binding_key], util[1])
                THEN [forward |-> TRUE,
                      forwarded_bindings |-> f.forwarded_bindings,
                      last_util_values |->
                          MapInsert(f.last_util_values, binding_key, util[1])]
                ELSE stay
          [] event.event_type \in {"storage.iops", "storage.qdepth", "transport.bw"} ->
                IF event.pid # None /\ IsNewBinding(f.forwarded_bindings, binding_key)
                THEN [always EXCEPT
                        !.forwarded_bindings = f.forwarded_bindings \cup {binding_key}]
                ELSE stay
          [] OTHER -> stay

\* HubForwarder::new
InitRollup ==
    /\ InitCommon /\ scope = "rollup" /\ IdleExcept({"comp"})
    /\ comp = [phase |-> "rollup", forwarded_bindings |-> {},
               last_util_values |-> [k \in {} |-> 0], log |-> <<>>, series |-> 0]

RollupRunning == comp.phase = "rollup"

Offer(event) ==
    LET r == ShouldForward(comp, event)
    IN  [comp EXCEPT !.forwarded_bindings = r.forwarded_bindings,
                     !.last_util_values = r.last_util_values,
                     !.log = Append(@, [event |-> event, forward |-> r.forward])]

\* the event loop offers an event to the filter
Uplink ==
    \E event \in RollupEvents :
        /\ RollupRunning /\ comp.series = 0 /\ Len(comp.log) < MaxUplinks
        /\ comp' = Offer(event)
        /\ UNCHANGED hostVars

\* the event loop offers the next compute.util event of the series
UplinkSeries ==
    /\ RollupRunning /\ comp.series < Len(UtilSeries)
    /\ comp' = [Offer(Event(1000 + comp.series, "compute.util", "gpu-1", None,
                            Some(3), UtilSeries[comp.series + 1]))
                  EXCEPT !.series = comp.series + 1]
    /\ UNCHANGED hostVars

NextRollup == Uplink \/ UplinkSeries

SpecRollup == InitRollup /\ [][NextRollup]_vars

\* the event carries a pid and is of a kind filtered by (pid, entity_id)
IsBinding(event) == event.event_type \in BindingKinds /\ event.pid # None

SamePair(e1, e2) == e1.pid = e2.pid /\ e1.entity_id = e2.entity_id

\* the events of the log before position j that have the pair of log[j]
EarlierOfPair(j) ==
    {i \in 1..(j - 1) :
        IsBinding(comp.log[i].event) /\ SamePair(comp.log[i].event, comp.log[j].event)}

\* C23: of the compute.util, compute.mem, storage.iops, storage.qdepth and
\* transport.bw events with a pid, the first of its (pid, entity_id) pair is
\* forwarded, and an event identical to the one before it in its pair is
\* not; of the ten compute.util values of pid 3 on gpu-1 none after the
\* first is forwarded.
C23_FirstOfPairForwardedRepeatNot ==
    RollupRunning =>
        /\ \A j \in 1..Len(comp.log) :
              IsBinding(comp.log[j].event) =>
                  /\ EarlierOfPair(j) = {} => comp.log[j].forward
                  /\ \A i \in EarlierOfPair(j) :
                        (/\ \A k \in EarlierOfPair(j) : k <= i
                         /\ comp.log[i].event = comp.log[j].event)
                            => ~comp.log[j].forward
        /\ \A k \in 2..comp.series :
              ~comp.log[Len(comp.log) - comp.series + k].forward

\* C23 witness: a storage.iops event of pid 3 and its repeat went through
\* the filter, the first forwarded and the repeat not; then the whole
\* series, of which the first value was forwarded.
C23_Witness ==
    /\ RollupRunning /\ comp.series = Len(UtilSeries)
    /\ Len(comp.log) = Len(UtilSeries) + 2
    /\ comp.log[1].event.event_type = "storage.iops"
    /\ comp.log[1].event.pid = Some(3)
    /\ comp.log[2].event = comp.log[1].event
    /\ comp.log[1].forward /\ ~comp.log[2].forward
    /\ comp.log[3].forward
    /\ \A k \in 4..Len(comp.log) : ~comp.log[k].forward

(***************************************************************************)
(* Process termination: ActionExecutor::kill_process                       *)
(* (src/agent/src/exec/executor.rs) and SystemActuator::kill_process_tree  *)
(* (src/agent/src/exec/mod.rs), on unix.  comp.table is the process table: *)
(* for each live pid its parent, its process group and whether the Agent   *)
(* may signal it.  comp.ops is the sequence of the calls made, each with   *)
(* its result and the table before and after.                              *)
(***************************************************************************)
\* termination calls per behaviour
MaxKills == 2

\* 10 is the target, 11 its child, 12 the child of 11, 20 an unrelated
\* process; 99 is never a process
KillTargets == {10, 11, 99}

Proc(ppid, pgid, permitted) == [ppid |-> ppid, pgid |-> pgid, permitted |-> permitted]

\* the process tables at the start: any of the four processes may be
\* missing (an orphan belongs to init), 11 and 12 are in the group of 10
\* or lead their own, and the Agent may lack the permission to signal 10
ProcessTables ==
    {[p \in live |->
        CASE p = 10 -> Proc(1, 10, perm10)
          [] p = 11 -> Proc(IF 10 \in live THEN 10 ELSE 1, g11, TRUE)
          [] p = 12 -> Proc(IF 11 \in live THEN 11 ELSE 1, g12, TRUE)
          [] p = 20 -> Proc(1, 20, TRUE)] :
      live \in SUBSET {10, 11, 12, 20}, perm10 \in BOOLEAN,
      g11 \in {10, 11}, g12 \in {10, 12}}

\* the table after the processes of dead are gone: their children belong to
\* init
Reap(table, dead) ==
    [p \in (DOMAIN table) \ dead |->
        IF table[p].ppid \in dead THEN [table[p] EXCEPT !.ppid = 1] ELSE table[p]]

\* kill -9 <pid>: exit status, stderr and the table afterwards
KillCommand(table, pid) ==
    IF pid \notin DOMAIN table
    THEN [success |-> FALSE, stderr |-> "kill: (" \o ToString(pid) \o ") - No such process",
          table |-> table]
    ELSE IF ~table[pid].permitted
    THEN [success |-> FALSE,
          stderr |-> "kill: (" \o ToString(pid) \o ") - Operation not permitted",
          table |-> table]
    ELSE [success |-> TRUE, stderr |-> "", table |-> Reap(table, {pid})]

\* kill -9 -<pgid>: every process of the group that the Agent may signal
KillGroupCommand(table, pgid) ==
    LET group == {p \in DOMAIN table : table[p].pgid = pgid}
        hit == {p \in group : table[p].permitted}
    IN  IF group = {}
        THEN [success |-> FALSE,
              stderr |-> "kill: (-" \o ToString(pgid) \o ") - No such process",
              table |-> table]
        ELSE IF hit = {}
        THEN [success |-> FALSE,
              stderr |-> "kill: (-" \o ToString(pgid) \o ") - Operation not permitted",
              table |-> table]
        ELSE [success |-> TRUE, stderr |-> "", table |-> Reap(table, hit)]

\* mutant of KillResult: a failed kill is an error whatever it says
KillResultStrict(output) == IF output.success THEN "Ok" ELSE "Err"

\* status.success(), or else stderr.contains("No such process")
KillResult(output) ==
    IF output.success THEN "Ok"
    ELSE IF Contains(output.stderr, "No such process") THEN "Ok"
    ELSE "Err"

\* ActionExecutor::kill_process
KillProcessCall(table, pid) ==
    LET output == KillCommand(table, pid)
    IN  [result |-> KillResult(output), table |-> output.table]

\* get_process_group: field 5 of /proc/<pid>/stat
GetProcessGroup(table, pid) ==
    IF pid \in DOMAIN table THEN Some(table[pid].pgid) ELSE None

\* SystemActuator::kill_process_tree
KillProcessTreeCall(table, pid) ==
    LET pgid == GetProcessGroup(table, pid)
        output == IF pgid # None THEN KillGroupCommand(table, pgid[1])
                  ELSE KillCommand(table, pid)
    IN  [result |-> KillResult(output), table |-> output.table]

InitKill ==
    /\ InitCommon /\ scope = "kill" /\ IdleExcept({"comp"})
    /\ \E table \in ProcessTables :
          comp = [phase |-> "kill", table |-> table, ops |-> <<>>]

KillRunning == comp.phase = "kill"

Called(op, pid, r) ==
    [comp EXCEPT !.table = r.table,
                 !.ops = Append(@, [op |-> op, pid |-> pid, result |-> r.result,
                                    before |-> comp.table, after |-> r.table])]

\* executor.execute(&ActionType::KillProcess, pid)
KillProcess ==
    \E pid \in KillTargets :
        /\ KillRunning /\ Len(comp.ops) < MaxKills
        /\ comp' = Called("KillProcess", pid, KillProcessCall(comp.table, pid))
        /\ UNCHANGED hostVars

\* actuator.execute(pid, "kill")
KillProcessTree ==
    \E pid \in KillTargets :
        /\ KillRunning /\ Len(comp.ops) < MaxKills
        /\ comp' = Called("KillProcessTree", pid, KillProcessTreeCall(comp.table, pid))
        /\ UNCHANGED hostVars

NextKill == KillProcess \/ KillProcessTree

SpecKill == InitKill /\ [][NextKill]_vars

RECURSIVE Descendants(_, _)
Descendants(table, pid) ==
    LET children == {c \in DOMAIN table : table[c].ppid = pid}
    IN  children \cup UNION {Descendants(table, c) : c \in children}

\* C27: after a KillProcess of the executor on pid p returned success,
\* neither p nor a process that was a descendant of p is alive.
C27_KillProcessKillsTree ==
    KillRunning =>
        \A i \in 1..Len(comp.ops) :
            (comp.ops[i].op = "KillProcess" /\ comp.ops[i].result = "Ok") =>
                /\ comp.ops[i].pid \notin DOMAIN comp.ops[i].after
                /\ Descendants(comp.ops[i].before, comp.ops[i].pid)
                      \cap DOMAIN comp.ops[i].after = {}

(***************************************************************************)
(* The remediation executor (FixEngine::fix_from_analysis,                 *)
(* src/agent/src/exec/fix_engine.rs) with the keyword table of             *)
(* ActionType::from_recommendation (src/agent/src/exec/action.rs).  An     *)
(* action is named by its variant; the parameters the table fills in are   *)
(* fixed and left out.  Whether ActionExecutor::execute succeeds depends on *)
(* the host and is a free choice.  comp.calls lists the calls of execute.   *)
(***************************************************************************)
\* recommended-action texts per plan
MaxRecs == 3

UpperCase == "ABCDEFGHIJKLMNOPQRSTUVWXYZ"
LowerCase == "abcdefghijklmnopqrstuvwxyz"

\* char::to_lowercase for the ASCII letters; other characters are unchanged
LowerChar(c) ==
    LET at == {i \in 1..Len(UpperCase) : SubSeq(UpperCase, i, i) = c}
    IN  IF at = {} THEN c ELSE SubSeq(LowerCase, CHOOSE i \in at : TRUE, CHOOSE i \in at : TRUE)

\* str::to_lowercase
RECURSIVE ToLowercase(_)
ToLowercase(s) ==
    IF Len(s) = 0 THEN s
    ELSE LowerChar(SubSeq(s, 1, 1)) \o ToLowercase(SubSeq(s, 2, Len(s)))

ContainsAny(s, pats) == \E pat \in pats : Contains(s, pat)

\* ActionType::from_recommendation; the keywords that are not ASCII are
\* written with their code points
FromRecommendation(text) ==
    LET text_lower == ToLowercase(text)
    IN  IF ContainsAny(text_lower, {"sigusr1", "checkpoint dump",
                                    "\\u89e6\\u53d1 checkpoint", "\\u4fdd\\u5b58 checkpoint"})
        THEN Some("Signal")
        ELSE IF Contains(text_lower, "signal") /\ Contains(text_lower, "dump")
        THEN Some("Signal")
        ELSE IF ContainsAny(text_lower, {"xctl zap", "kill",
                                         "\\u7ec8\\u6b62\\u8fdb\\u7a0b", "\\u6e05\\u7406"})
        THEN Some("KillProcess")
        ELSE IF \/ ContainsAny(text_lower, {"\\u4f18\\u96c5", "graceful"})
                \/ (Contains(text_lower, "\\u4fe1\\u53f7") /\ Contains(text_lower, "\\u7b49\\u5f85"))
        THEN Some("GracefulShutdown")
        ELSE IF ContainsAny(text_lower, {"cgroup", "\\u9650\\u6d41", "\\u9650\\u5236", "throttle"})
        THEN Some("CgroupThrottle")
        ELSE IF ContainsAny(text_lower, {"\\u91cd\\u542f\\u7f51\\u5361", "restart network",
                                         "\\u7f51\\u7edc\\u63a5\\u53e3"})
        THEN Some("NetworkRestart")
        ELSE IF ContainsAny(text_lower, {"\\u9694\\u79bb", "isolate"})
        THEN Some("IsolateNode")
        ELSE IF Contains(text_lower, "checkpoint")
                /\ ContainsAny(text_lower, {"\\u68c0\\u67e5", "check"})
        THEN Some("CheckCheckpoint")
        ELSE None

\* parse_recommendations: the priority of an action
Priority(action) ==
    CASE action = "Signal" -> 1
      [] action = "GracefulShutdown" -> 2
      [] action = "CgroupThrottle" -> 3
      [] action = "CheckCheckpoint" -> 4
      [] action = "NetworkRestart" -> 5
      [] action = "IsolateNode" -> 6
      [] action = "KillProcess" -> 10
      [] action = "Custom" -> 7

\* the actions parsed from the texts, in the order of the texts; rec is the
\* position of the text an action was parsed from
ParsedActions(recommendations) ==
    LET all == [i \in 1..Len(recommendations) |->
                   [rec |-> i, parsed |-> FromRecommendation(recommendations[i])]]
        kept == SelectSeq(all, LAMBDA x : x.parsed # None)
    IN  [i \in 1..Len(kept) |->
            [action |-> kept[i].parsed[1], priority |-> Priority(kept[i].parsed[1]),
             rec |-> kept[i].rec]]

\* mutant of SortByPriority: the plan keeps the order of the texts
SortByPriorityNot(actions, p) == actions

\* actions.sort_by_key(|(_, p)| *p): a stable sort
RECURSIVE SortByPriority(_, _)
SortByPriority(actions, p) ==
    IF p > 10 THEN <<>>
    ELSE SelectSeq(actions, LAMBDA a : a.priority = p) \o SortByPriority(actions, p + 1)

\* parse_recommendations
ParseRecommendations(recommendations) ==
    SortByPriority(ParsedActions(recommendations), 1)

\* texts that parse to an action, in several spellings, and texts that do not
RecTexts ==
    {"Send SIGUSR1 to trigger a checkpoint dump", "Kill the process (xctl zap)",
     "Graceful restart of the job", "check the logs", ""}

Recommendations == UNION {[1..n -> RecTexts] : n \in 0..MaxRecs}

InitFix ==
    /\ InitCommon /\ scope = "fix" /\ IdleExcept({"comp"})
    /\ comp = [phase |-> "fix", pc |-> "idle"]

FixRunning == comp.phase = "fix"

\* mutant of OverallSuccess
OverallSuccessAlways(failed_actions) == TRUE

\* let success = failed_actions.is_empty()
OverallSuccess(failed_actions) == failed_actions = <<>>

\* FixResult
FixResult(success, executed_actions, failed_actions) ==
    [success |-> success, executed_actions |-> executed_actions,
     failed_actions |-> failed_actions]

\* fix_from_analysis is called: the plan is parsed
FixFromAnalysis ==
    \E recommendations \in Recommendations :
        /\ FixRunning /\ comp.pc = "idle"
        /\ LET actions == ParseRecommendations(recommendations)
           IN  comp' = [phase |-> "fix", pc |-> IF actions = <<>> THEN "empty" ELSE "loop",
                        recommendations |-> recommendations, actions |-> actions,
                        next |-> 1, executed_actions |-> <<>>, failed_actions |-> <<>>,
                        calls |-> <<>>, recs |-> <<>>, result |-> None]
        /\ UNCHANGED hostVars

\* if actions.is_empty(): success: false
ReturnNoActions ==
    /\ FixRunning /\ comp.pc = "empty"
    /\ comp' = [comp EXCEPT !.pc = "returned",
                            !.result = Some(FixResult(FALSE, <<>>, <<>>))]
    /\ UNCHANGED hostVars

\* mutant of AfterExecute: the plan stops at the first failure
AfterExecuteStopOnError(c, ok) ==
    LET entry == [action |-> c.actions[c.next].action,
                  priority |-> c.actions[c.next].priority, ok |-> ok]
    IN  IF ok THEN [c EXCEPT !.executed_actions = Append(@, entry), !.next = @ + 1]
        ELSE [c EXCEPT !.failed_actions = Append(@, entry), !.next = Len(c.actions) + 1]

\* the match on the result of execute: push to executed_actions or to
\* failed_actions, then the next action
AfterExecute(c, ok) ==
    LET entry == [action |-> c.actions[c.next].action,
                  priority |-> c.actions[c.next].priority, ok |-> ok]
    IN  IF ok THEN [c EXCEPT !.executed_actions = Append(@, entry), !.next = @ + 1]
        ELSE [c EXCEPT !.failed_actions = Append(@, entry), !.next = @ + 1]

\* one turn of the loop: self.executor.execute(&action, pid).await
ExecuteAction ==
    \E ok \in BOOLEAN :
        /\ FixRunning /\ comp.pc = "loop" /\ comp.next <= Len(comp.actions)
        /\ comp' = AfterExecute([comp EXCEPT
                                    !.calls = Append(@, comp.actions[comp.next].action),
                                    !.recs = Append(@, comp.actions[comp.next].rec)], ok)
        /\ UNCHANGED hostVars

\* after the loop: Ok(FixResult { success, .. })
ReturnResult ==
    /\ FixRunning /\ comp.pc = "loop" /\ comp.next > Len(comp.actions)
    /\ comp' = [comp EXCEPT !.pc = "returned",
                  !.result = Some(FixResult(OverallSuccess(comp.failed_actions),
                                            comp.executed_actions, comp.failed_actions))]
    /\ UNCHANGED hostVars

NextFix == FixFromAnalysis \/ ReturnNoActions \/ ExecuteAction \/ ReturnResult

SpecFix == InitFix /\ [][NextFix]_vars

FixReturned == FixRunning /\ comp.pc = "returned"

\* the texts of the plan that parse to an action
ParsedCount ==
    Cardinality({i \in 1..Len(comp.recommendations) :
                    FromRecommendation(comp.recommendations[i]) # None})

\* C24: when the executor returns, execute has been called once for every
\* action of the plan, in the order of the plan, whatever the earlier calls
\* returned; every call is in executed[] when it succeeded and in failed[]
\* when it did not, and in one of them only, so that the two hold as many
\* entries as actions were parsed.
C24_EveryActionExecutedOnce ==
    FixReturned =>
        LET r == comp.result[1]
        IN  /\ Len(comp.actions) = ParsedCount
            /\ comp.calls = [i \in 1..Len(comp.actions) |-> comp.actions[i].action]
            /\ \A i \in 1..Len(r.executed_actions) : r.executed_actions[i].ok
            /\ \A i \in 1..Len(r.failed_actions) : ~r.failed_actions[i].ok
            /\ Len(r.executed_actions) + Len(r.failed_actions) = ParsedCount

\* C24 witness: a plan of three actions whose first action failed has been
\* executed to its end.
C24_Witness ==
    /\ FixReturned /\ Len(comp.actions) = 3 /\ Len(comp.calls) = 3
    /\ Len(comp.result[1].failed_actions) >= 1
    /\ comp.result[1].failed_actions[1].action = comp.actions[1].action
    /\ Len(comp.result[1].executed_actions) = 2

\* C25 as stated: for every list of texts, overall_success is true exactly
\* when failed[] is empty.
C25_SuccessIffNothingFailed ==
    FixReturned =>
        (comp.result[1].success <=> comp.result[1].failed_actions = <<>>)

\* C25 amended: overall_success is true exactly when at least one action was
\* parsed and failed[] is empty; with no action parsed it is false, and
\* executed[] and failed[] are empty.
C25_SuccessIffParsedAndNothingFailed ==
    FixReturned =>
        /\ comp.result[1].success <=>
              (ParsedCount > 0 /\ comp.result[1].failed_actions = <<>>)
        /\ ParsedCount = 0 =>
              comp.result[1].executed_actions = <<>> /\ comp.result[1].failed_actions = <<>>

\* C25 witness: a list of two texts from which no action is parsed returned
\* without success.
C25_Witness ==
    /\ FixReturned /\ Len(comp.recommendations) = 2 /\ ParsedCount = 0
    /\ ~comp.result[1].success
    /\ comp.result[1].failed_actions = <<>>

\* C33: the actions of a plan are executed in non-decreasing priority,
\* actions of equal priority in the order of the texts they were parsed
\* from, and once KillProcess has been executed nothing but KillProcess
\* follows.
C33_ExecutedInPriorityOrder ==
    (FixRunning /\ comp.pc \in {"loop", "returned"}) =>
        \A i, j \in 1..Len(comp.calls) :
            i < j =>
                /\ \/ Priority(comp.calls[i]) < Priority(comp.calls[j])
                   \/ /\ Priority(comp.calls[i]) = Priority(comp.calls[j])
                      /\ comp.recs[i] < comp.recs[j]
                /\ comp.calls[i] = "KillProcess" => comp.calls[j] = "KillProcess"

\* C33 witness: the texts asked for a kill, a signal and a kill; the signal
\* was executed first, then the two kills in the order of their texts.
C33_Witness ==
    /\ FixReturned
    /\ comp.calls = <<"Signal", "KillProcess", "KillProcess">>
    /\ comp.recs = <<2, 1, 3>>

(***************************************************************************)
(* The Agent's command listener (HubForwarder::connect and handle_command, *)
(* src/agent/src/hub_forwarder.rs).  comp.inbox holds the text frames the  *)
(* Hub has sent and the listener has not yet read, comp.handled what the   *)
(* listener did with each frame it read, comp.events the events the Agent  *)
(* has emitted because of a command.                                       *)
(***************************************************************************)
\* command frames the Hub sends per behaviour
MaxCommands == 2

\* struct HubCommand, as fix_route builds it, and a frame with another intent
HubCommand(intent, target_pid, action) ==
    [intent |-> intent, target_pid |-> target_pid, action |-> action]

HubCommands ==
    {HubCommand("fix", 10, a) :
        a \in {Some("GracefulShutdown"), Some("KillProcess"), Some("sigusr1"),
               Some("Kill it"), Some("reboot")}}
    \cup {HubCommand("fix", 11, None), HubCommand("drain", 10, None)}

\* action_from_string
ActionFromString(action_str) ==
    LET lower == ToLowercase(action_str)
    IN  IF lower \in {"gracefulshutdown", "graceful_shutdown"} THEN Some("GracefulShutdown")
        ELSE IF lower \in {"killprocess", "kill_process", "kill"} THEN Some("KillProcess")
        ELSE IF lower \in {"signal", "sigusr1"} THEN Some("Signal")
        ELSE FromRecommendation(action_str)

InitCommand ==
    /\ InitCommon /\ scope = "command" /\ IdleExcept({"comp"})
    /\ comp = [phase |-> "command", sent |-> 0, inbox |-> <<>>, handled |-> <<>>,
               events |-> <<>>]

CommandRunning == comp.phase = "command"

\* fix_route: the Hub sends one frame and answers; it waits for nothing
HubSendsCommand ==
    \E cmd \in HubCommands :
        /\ CommandRunning /\ comp.sent < MaxCommands
        /\ comp' = [comp EXCEPT !.sent = @ + 1, !.inbox = Append(@, cmd)]
        /\ UNCHANGED hostVars

Handled(cmd, action, outcome) ==
    [comp EXCEPT !.inbox = Tail(@),
                 !.handled = Append(@, [cmd |-> cmd, action |-> action,
                                        outcome |-> outcome])]

\* the listener reads a frame whose intent is not fix: logged
HandleUnknownIntent ==
    /\ CommandRunning /\ comp.inbox # <<>> /\ Head(comp.inbox).intent # "fix"
    /\ comp' = Handled(Head(comp.inbox), None, "unknown_intent")
    /\ UNCHANGED hostVars

\* handle_command, intent fix, action_from_string fails: Err before execute
HandleUnknownAction ==
    /\ CommandRunning /\ comp.inbox # <<>> /\ Head(comp.inbox).intent = "fix"
    /\ Head(comp.inbox).action # None
    /\ ActionFromString(Head(comp.inbox).action[1]) = None
    /\ comp' = Handled(Head(comp.inbox), None, "unknown_action")
    /\ UNCHANGED hostVars

\* handle_command, intent fix: executor.execute(&action, cmd.target_pid);
\* the result is printed, and an error is returned to the listener, which
\* prints it
HandleFix ==
    \E ok \in BOOLEAN :
        /\ CommandRunning /\ comp.inbox # <<>> /\ Head(comp.inbox).intent = "fix"
        /\ LET cmd == Head(comp.inbox)
               action == IF cmd.action = None THEN Some("GracefulShutdown")
                         ELSE ActionFromString(cmd.action[1])
           IN  /\ action # None
               /\ comp' = Handled(cmd, action, IF ok THEN "executed" ELSE "execute_failed")
        /\ UNCHANGED hostVars

NextCommand ==
    \/ HubSendsCommand
    \/ HandleUnknownIntent
    \/ HandleUnknownAction
    \/ HandleFix

SpecCommand == InitCommand /\ [][NextCommand]_vars

\* C28: once the Agent has handled a fix command by executing its action,
\* it has emitted an action.exec event for the target pid; the Hub has sent
\* each command once.
C28_ExecutedCommandIsAcknowledged ==
    CommandRunning =>
        /\ comp.sent = Len(comp.inbox) + Len(comp.handled)
        /\ \A i \in 1..Len(comp.handled) :
              comp.handled[i].outcome = "executed" =>
                  \E j \in 1..Len(comp.events) :
                      /\ comp.events[j].event_type = "action.exec"
                      /\ comp.events[j].pid = Some(comp.handled[i].cmd.target_pid)

(***************************************************************************)
(* The rule engine (src/core/src/rules/mod.rs, src/src/rules/matcher.rs,   *)
(* src/src/rules/rule.rs).  comp.dir is the rule files in the order the    *)
(* directory lists them, comp.rules the engine's rule list, comp.result    *)
(* the last answer of match_first or match_rules with its inputs.          *)
(***************************************************************************)
\* rule files in the directory
MaxRules == 3

\* events handed to one match
MaxRuleEvents == 2

\* enum Condition
EventCondition(event_type, entity_id_pattern, value_pattern, value_threshold) ==
    [type |-> "event", event_type |-> event_type,
     entity_id_pattern |-> entity_id_pattern, value_pattern |-> value_pattern,
     value_threshold |-> value_threshold]

GraphCondition(edge_type, from_pattern, to_pattern) ==
    [type |-> "graph", edge_type |-> edge_type, from_pattern |-> from_pattern,
     to_pattern |-> to_pattern]

AnyCondition(conditions) == [type |-> "any", conditions |-> conditions]

AllCondition(conditions) == [type |-> "all", conditions |-> conditions]

\* struct Rule: the fields matching reads
Rule(name, priority, conditions) ==
    [name |-> name, priority |-> priority, conditions |-> conditions]

\* matches_pattern: str::split('*') of a pattern with n stars has n + 1 parts
MatchesPattern(text, pattern) ==
    LET stars == {i \in 1..Len(pattern) : SubSeq(pattern, i, i) = "*"}
    IN  IF Cardinality(stars) = 1
        THEN LET at == CHOOSE i \in stars : TRUE
                 first == SubSeq(pattern, 1, at - 1)
                 second == SubSeq(pattern, at + 1, Len(pattern))
             IN  /\ StartsWith(text, first)
                 /\ Len(text) >= Len(second)
                 /\ SubSeq(text, Len(text) - Len(second) + 1, Len(text)) = second
        ELSE text = pattern

\* value < threshold, for a parsed value and a positive whole threshold
BelowThreshold(x, threshold) == x.neg \/ x.int < threshold

\* match_condition, arm Condition::Event: the closure of events.iter().any
EventMatches(condition, event) ==
    /\ event.event_type = condition.event_type
    /\ condition.entity_id_pattern # None =>
           MatchesPattern(event.entity_id, condition.entity_id_pattern[1])
    /\ condition.value_pattern # None =>
           Contains(event.value, condition.value_pattern[1])
    /\ condition.value_threshold # None =>
           LET r == ParseF64(event.value)
           IN  r # None /\ ~BelowThreshold(r[1], condition.value_threshold[1])

EdgeTypeStr(edge_type) ==
    CASE edge_type = "Consumes" -> "consumes"
      [] edge_type = "WaitsOn" -> "waits_on"
      [] edge_type = "BlockedBy" -> "blocked_by"

\* match_condition, arm Condition::Graph: the closure of edges.iter().any
EdgeMatches(condition, edge) ==
    /\ EdgeTypeStr(edge.edge_type) = condition.edge_type
    /\ condition.from_pattern # None => MatchesPattern(edge.from, condition.from_pattern[1])
    /\ condition.to_pattern # None => MatchesPattern(edge.to, condition.to_pattern[1])

RECURSIVE MatchCondition(_, _, _)
RECURSIVE AnyArm(_, _, _)
RECURSIVE AllArm(_, _, _)

\* match_condition, arm Condition::All, and match_all_conditions: the loop
\* returns false at the first condition that does not match
AllArm(conditions, events, es) ==
    IF conditions = <<>> THEN TRUE
    ELSE IF ~MatchCondition(Head(conditions), events, es) THEN FALSE
    ELSE AllArm(Tail(conditions), events, es)

\* match_condition, arm Condition::Any: the loop returns true at the first
\* nested condition that matches
AnyArm(conditions, events, es) ==
    IF conditions = <<>> THEN FALSE
    ELSE IF MatchCondition(Head(conditions), events, es) THEN TRUE
    ELSE AnyArm(Tail(conditions), events, es)

\* RuleMatcher::match_condition
MatchCondition(condition, events, es) ==
    CASE condition.type = "event" ->
             \E i \in 1..Len(events) : EventMatches(condition, events[i])
      [] condition.type = "graph" ->
             \E i \in 1..Len(es) : EdgeMatches(condition, es[i])
      [] condition.type = "any" -> AnyArm(condition.conditions, events, es)
      [] condition.type = "all" -> AllArm(condition.conditions, events, es)

\* RuleMatcher::match_all_conditions
MatchAllConditions(conditions, events, es) ==
    AllArm(conditions, events, es)

\* mutant of SortRules: the rules stay in directory order
SortRulesNot(rules, p) == rules

\* rules.sort_by(|a, b| b.priority.cmp(&a.priority)): a stable sort, highest
\* priority first; p is the priority being collected
RECURSIVE SortRules(_, _)
SortRules(rules, p) ==
    IF p < 0 THEN <<>>
    ELSE SelectSeq(rules, LAMBDA r : r.priority = p) \o SortRules(rules, p - 1)

\* the loop of match_rules over rules[i..]
RECURSIVE MatchRulesFrom(_, _, _)
MatchRulesFrom(rules, events, es) ==
    IF rules = <<>> THEN <<>>
    ELSE (IF MatchAllConditions(Head(rules).conditions, events, es)
          THEN <<Head(rules)>> ELSE <<>>)
         \o MatchRulesFrom(Tail(rules), events, es)

\* the loop of match_first
RECURSIVE MatchFirstFrom(_, _, _)
MatchFirstFrom(rules, events, es) ==
    IF rules = <<>> THEN None
    ELSE IF MatchAllConditions(Head(rules).conditions, events, es)
    THEN Some(Head(rules))
    ELSE MatchFirstFrom(Tail(rules), events, es)

UtilHigh == EventCondition("compute.util", Some("gpu-*"), None, Some(80))
HwError == EventCondition("error.hw", None, Some("XID"), None)
Waiting == GraphCondition("waits_on", Some("pid-*"), None)

MaxPriority == 3

\* the rule files: every combinator, nested and empty, and equal priorities
RuleFiles ==
    {Rule("gpu-hot", 1, <<UtilHigh>>),
     Rule("gpu-hot-and-waiting", 3, <<UtilHigh, Waiting>>),
     Rule("any-signal", 2, <<AnyCondition(<<UtilHigh, HwError>>)>>),
     Rule("all-signals", 3, <<AllCondition(<<HwError, Waiting>>)>>),
     Rule("nested", 2, <<AnyCondition(<<AllCondition(<<UtilHigh, HwError>>), Waiting>>),
                         AnyCondition(<<HwError, UtilHigh>>)>>),
     Rule("empty-any", 3, <<AnyCondition(<<>>)>>),
     Rule("no-conditions", 1, <<>>)}

RuleDirs ==
    {d \in UNION {[1..n -> RuleFiles] : n \in 0..MaxRules} :
        \A i, j \in 1..Len(d) : i # j => d[i] # d[j]}

RuleEvents ==
    {Event(1000, "compute.util", "gpu-0", None, None, "95"),
     Event(1000, "compute.util", "cpu-0", None, None, "99"),
     Event(1000, "error.hw", "gpu-0", None, None, "XID 79")}

RuleEventLists == UNION {[1..n -> RuleEvents] : n \in 0..MaxRuleEvents}

RuleEdgeLists ==
    {<<>>, <<Edge("WaitsOn", "pid-1", "gpu-0", 1000)>>,
     <<Edge("Consumes", "pid-1", "gpu-0", 1000)>>,
     <<Edge("Consumes", "pid-1", "gpu-0", 1000), Edge("WaitsOn", "pid-2", "nvme0", 1000)>>}

InitRules ==
    /\ InitCommon /\ scope = "rules" /\ IdleExcept({"comp"})
    /\ \E dir \in RuleDirs :
          comp = [phase |-> "rules", pc |-> "new", dir |-> dir, rules |-> <<>>,
                  result |-> None]

RulesRunning == comp.phase = "rules"

\* RuleEngine::load_from_dir
LoadFromDir ==
    /\ RulesRunning /\ comp.pc = "new"
    /\ comp' = [comp EXCEPT !.pc = "loaded", !.rules = SortRules(comp.dir, MaxPriority)]
    /\ UNCHANGED hostVars

\* RuleEngine::match_first; the engine is read only (&self), so one query per
\* behaviour covers every query
MatchFirst ==
    \E events \in RuleEventLists, es \in RuleEdgeLists :
        /\ RulesRunning /\ comp.pc = "loaded" /\ comp.result = None
        /\ comp' = [comp EXCEPT !.result =
                        Some([op |-> "match_first", events |-> events, edges |-> es,
                              out |-> MatchFirstFrom(comp.rules, events, es)])]
        /\ UNCHANGED hostVars

\* RuleEngine::match_rules
MatchRules ==
    \E events \in RuleEventLists, es \in RuleEdgeLists :
        /\ RulesRunning /\ comp.pc = "loaded" /\ comp.result = None
        /\ comp' = [comp EXCEPT !.result =
                        Some([op |-> "match_rules", events |-> events, edges |-> es,
                              out |-> MatchRulesFrom(comp.rules, events, es)])]
        /\ UNCHANGED hostVars

NextRules ==
    \/ LoadFromDir
    \/ MatchFirst
    \/ MatchRules

SpecRules == InitRules /\ [][NextRules]_vars

\* a condition holds: any = at least one nested condition holds, all = every
\* nested condition holds
RECURSIVE Holds(_, _, _)
Holds(condition, events, es) ==
    CASE condition.type = "event" ->
             \E i \in 1..Len(events) : EventMatches(condition, events[i])
      [] condition.type = "graph" ->
             \E i \in 1..Len(es) : EdgeMatches(condition, es[i])
      [] condition.type = "any" ->
             \E i \in 1..Len(condition.conditions) :
                 Holds(condition.conditions[i], events, es)
      [] condition.type = "all" ->
             \A i \in 1..Len(condition.conditions) :
                 Holds(condition.conditions[i], events, es)

\* a rule matches: every one of its top-level conditions holds
RuleHolds(rule, events, es) ==
    \A i \in 1..Len(rule.conditions) : Holds(rule.conditions[i], events, es)

\* the rule files that match the inputs of the last answer
MatchingFiles ==
    {comp.dir[i] : i \in {k \in 1..Len(comp.dir) :
        RuleHolds(comp.dir[k], comp.result[1].events, comp.result[1].edges)}}

MaxIngests == 2

\* why_process requests per connection
MaxWhys == 2

\* the connection handler tasks of the RPC server
RpcTasks == {"rpc-1", "rpc-2"}

FreeLock == [holders |-> {}, queue |-> <<>>]

\* a request of the mode can be granted next to the holders
Compatible(holders, mode) ==
    IF mode = "write" THEN holders = {} ELSE \A h \in holders : h[2] = "read"

\* the lock hands itself to the waiters at the head of its queue
RECURSIVE Settle(_)
Settle(lock) ==
    IF lock.queue # <<>> /\ Compatible(lock.holders, Head(lock.queue)[2])
    THEN Settle([holders |-> lock.holders \cup {Head(lock.queue)},
                 queue |-> Tail(lock.queue)])
    ELSE lock

\* RwLock::read and RwLock::write up to the first poll
Acquire(lock, task, mode) == Settle([lock EXCEPT !.queue = Append(@, <<task, mode>>)])

\* drop of the guard
Release(lock, task) ==
    Settle([lock EXCEPT !.holders = {h \in @ : h[1] # task}])

\* the .await of the guard has returned
Holding(lock, task) == \E h \in lock.holders : h[1] = task

InitLocks ==
    /\ InitCommon /\ scope = "locks" /\ IdleExcept({"comp"})
    /\ comp = [phase |-> "locks", nodes |-> FreeLock, edges |-> FreeLock,
               ingest |-> [pc |-> "idle", event_type |-> "", started |-> 0],
               query |-> [t \in RpcTasks |-> [pc |-> "idle", started |-> 0]]]

LocksRunning == comp.phase = "locks"

\* process_event: the dispatch and the handler's self.nodes.write().await
IngestStarts ==
    \E event_type \in {"process.state", "compute.util", "error.hw"} :
        /\ LocksRunning /\ comp.ingest.pc = "idle" /\ comp.ingest.started < MaxIngests
        /\ comp' = [comp EXCEPT !.ingest = [pc |-> "handler_nodes", event_type |-> event_type,
                                            started |-> @.started + 1],
                                !.nodes = Acquire(@, "ingest", "write")]
        /\ UNCHANGED hostVars

\* handle_compute_event, handle_transport_event, handle_error_event:
\* self.edges.write().await with the nodes guard held
HandlerLocksEdges ==
    /\ LocksRunning /\ comp.ingest.pc = "handler_nodes"
    /\ comp.ingest.event_type # "process.state"
    /\ Holding(comp.nodes, "ingest")
    /\ comp' = [comp EXCEPT !.ingest.pc = "handler_edges",
                            !.edges = Acquire(@, "ingest", "write")]
    /\ UNCHANGED hostVars

\* the handler returns and drops its guards; process_event goes on to
\* cleanup_old_errors and its self.nodes.write().await
HandlerReturns ==
    /\ LocksRunning
    /\ \/ /\ comp.ingest.pc = "handler_nodes" /\ comp.ingest.event_type = "process.state"
          /\ Holding(comp.nodes, "ingest")
       \/ /\ comp.ingest.pc = "handler_edges" /\ Holding(comp.edges, "ingest")
    /\ comp' = [comp EXCEPT !.ingest.pc = "cleanup_nodes",
                            !.edges = Release(@, "ingest"),
                            !.nodes = Acquire(Release(@, "ingest"), "ingest", "write")]
    /\ UNCHANGED hostVars

\* cleanup_old_errors: self.edges.write().await with the nodes guard held
CleanupLocksEdges ==
    /\ LocksRunning /\ comp.ingest.pc = "cleanup_nodes" /\ Holding(comp.nodes, "ingest")
    /\ comp' = [comp EXCEPT !.ingest.pc = "cleanup_edges",
                            !.edges = Acquire(@, "ingest", "write")]
    /\ UNCHANGED hostVars

\* cleanup_old_errors returns, and process_event with it
CleanupReturns ==
    /\ LocksRunning /\ comp.ingest.pc = "cleanup_edges" /\ Holding(comp.edges, "ingest")
    /\ comp' = [comp EXCEPT !.ingest.pc = "idle",
                            !.edges = Release(@, "ingest"),
                            !.nodes = Release(@, "ingest")]
    /\ UNCHANGED hostVars

\* handle_request, RpcRequest::WhyProcess: find_root_cause and its
\* self.edges.read().await
WhyProcessStarts(t) ==
    /\ LocksRunning /\ comp.query[t].pc = "idle" /\ comp.query[t].started < MaxWhys
    /\ comp' = [comp EXCEPT !.query[t] = [pc |-> "query_edges", started |-> @.started + 1],
                            !.edges = Acquire(@, t, "read")]
    /\ UNCHANGED hostVars

\* find_root_cause: self.nodes.read().await with the edges guard held
QueryLocksNodes(t) ==
    /\ LocksRunning /\ comp.query[t].pc = "query_edges" /\ Holding(comp.edges, t)
    /\ comp' = [comp EXCEPT !.query[t].pc = "query_nodes",
                            !.nodes = Acquire(@, t, "read")]
    /\ UNCHANGED hostVars

\* find_root_cause searches and returns; the guards drop
QueryReturns(t) ==
    /\ LocksRunning /\ comp.query[t].pc = "query_nodes" /\ Holding(comp.nodes, t)
    /\ comp' = [comp EXCEPT !.query[t].pc = "idle",
                            !.nodes = Release(@, t),
                            !.edges = Release(@, t)]
    /\ UNCHANGED hostVars

IngestStep ==
    \/ IngestStarts
    \/ HandlerLocksEdges
    \/ HandlerReturns
    \/ CleanupLocksEdges
    \/ CleanupReturns

QueryStep(t) ==
    \/ WhyProcessStarts(t)
    \/ QueryLocksNodes(t)
    \/ QueryReturns(t)

NextLocks ==
    \/ IngestStep
    \/ \E t \in RpcTasks : QueryStep(t)

\* the runtime polls every task that can go on
SpecLocks ==
    /\ InitLocks /\ [][NextLocks]_vars
    /\ WF_vars(HandlerLocksEdges) /\ WF_vars(HandlerReturns)
    /\ WF_vars(CleanupLocksEdges) /\ WF_vars(CleanupReturns)
    /\ \A t \in RpcTasks : WF_vars(QueryLocksNodes(t)) /\ WF_vars(QueryReturns(t))

\* C30: every process_event that has started returns, and so does every
\* find_root_cause, whatever the order in which the two take the locks of
\* the nodes and the edges.
C30_IngestAndQueriesComplete ==
    /\ (LocksRunning /\ comp.ingest.pc # "idle") ~> (comp.ingest.pc = "idle")
    /\ \A t \in RpcTasks :
          (LocksRunning /\ comp.query[t].pc # "idle") ~> (comp.query[t].pc = "idle")

(***************************************************************************)
(* The registry under reconnects and shared peer addresses (SpecHub).      *)
(***************************************************************************)
\* the open sessions whose last node_id, sent in an event, is n
LiveSessionsOf(n) ==
    {c \in Conns : hub.conn[c].state = "open" /\ hub.conn[c].named
                   /\ hub.conn[c].node_id = n}

\* C31: when exactly one open session has identified itself as node n, the
\* registry maps n to that session's sender, whatever other sessions have
\* ended or rebound before.
C31_RegistryKeepsLiveSession ==
    (HubRunning /\ hub.scope = "registry") =>
        \A n \in AgentNodeIds :
            \A c \in Conns :
                LiveSessionsOf(n) = {c} => RegistryGet(hub.registry, n) = Some(c)

(***************************************************************************)
(* The roll-up filter on compute events after the first of a binding:      *)
(* high, middle, low and unparsable values, two kinds, two pids, and a     *)
(* storage event that shares the key set.                                  *)
(***************************************************************************)
\* events offered to the filter under SpecTransitions
MaxOffers == 3

TransitionEvents ==
    {Event(1000, k, "gpu-1", None, Some(pid), v) :
        k \in {"compute.util", "compute.mem"}, pid \in {3, 4},
        v \in {"90", "50", "0.5", "busy"}}
    \cup {Event(1000, "storage.iops", "gpu-1", None, Some(3), "90")}

InitTransitions ==
    /\ InitCommon /\ scope = "transitions" /\ IdleExcept({"comp"})
    /\ comp = [phase |-> "transitions", forwarded_bindings |-> {},
               last_util_values |-> [k \in {} |-> 0], log |-> <<>>]

TransitionsRunning == comp.phase = "transitions"

\* the event loop offers an event to the filter
OfferEvent ==
    \E event \in TransitionEvents :
        /\ TransitionsRunning /\ Len(comp.log) < MaxOffers
        /\ comp' = Offer(event)
        /\ UNCHANGED hostVars

NextTransitions == OfferEvent

SpecTransitions == InitTransitions /\ [][NextTransitions]_vars

IsCompute(event) == event.event_type \in {"compute.util", "compute.mem"}

\* the compute events before position j that have the pair of log[j]
EarlierCompute(j) == {i \in EarlierOfPair(j) : IsCompute(comp.log[i].event)}

\* the values of log[i] and log[j] both parse and are a sharp transition
SharpBetween(i, j) ==
    LET last == ParseF64(comp.log[i].event.value)
        current == ParseF64(comp.log[j].event.value)
    IN  /\ last # None /\ current # None
        /\ \/ AboveEighty(last[1]) /\ BelowOne(current[1])
           \/ BelowOne(last[1]) /\ AboveEighty(current[1])

\* the last element of a set of positions that is not empty
Latest(S) == CHOOSE i \in S : \A k \in S : k <= i

\* C32: a compute event that is not the first event of its (pid, entity_id)
\* pair is forwarded exactly when the compute event observed just before it
\* for the pair and the event itself are a sharp transition.
C32_ForwardedIffSharpAgainstPreceding ==
    TransitionsRunning =>
        \A j \in 1..Len(comp.log) :
            (IsCompute(comp.log[j].event) /\ EarlierOfPair(j) # {}) =>
                (comp.log[j].forward <=>
                    /\ EarlierCompute(j) # {}
                    /\ SharpBetween(Latest(EarlierCompute(j)), j))

\* the compute events before position j, of the pair of log[j], that the
\* filter forwarded
EarlierForwarded(j) == {i \in EarlierCompute(j) : comp.log[i].forward}

\* C32 as amended: a compute event that is not the first event of its pair
\* is forwarded exactly when the last compute event of the pair that was
\* forwarded and the event itself are a sharp transition.
C32_ForwardedIffSharpAgainstForwarded ==
    TransitionsRunning =>
        \A j \in 1..Len(comp.log) :
            (IsCompute(comp.log[j].event) /\ EarlierOfPair(j) # {}) =>
                (comp.log[j].forward <=>
                    /\ EarlierForwarded(j) # {}
                    /\ SharpBetween(Latest(EarlierForwarded(j)), j))

\* C32 witness: 90, 50 and 0.5 for one pair: the first forwarded, the
\* second not, the third forwarded against the 90
C32_Witness ==
    /\ TransitionsRunning /\ Len(comp.log) = 3
    /\ \A j \in 1..3 : /\ comp.log[j].event.event_type = "compute.util"
                       /\ comp.log[j].event.pid = Some(3)
    /\ comp.log[1].event.value = "90" /\ comp.log[2].event.value = "50"
    /\ comp.log[3].event.value = "0.5"
    /\ comp.log[1].forward /\ ~comp.log[2].forward /\ comp.log[3].forward

(***************************************************************************)
(* The life of the probe task and of the consumer task in run_daemon       *)
(* (src/agent/src/main.rs) around SubprocessProbe::start_stream            *)
(* (src/src/plugin/mod.rs).  comp.senders is the set of the live           *)
(* mpsc::Sender handles of the channel: the one inside EventBus, the clone *)
(* run_daemon keeps in tx, and the clone moved into the probe task.        *)
(* comp.probe is the position of start_stream, comp.consumer that of the   *)
(* receive loop; "ended" is a task that returned, "cancelled" one that was *)
(* aborted.                                                                *)
(***************************************************************************)
\* probe processes start_stream spawns per behaviour
MaxProbeSpawns == 2

\* events a probe process writes
MaxProbeEvents == 2

\* capacity of the channel under SpecSupervise
SuperviseCapacity == 1

ExitStatuses == {"success", "failure", "signal"}

\* run_daemon up to the wait for ctrl_c: EventBus::new, bus.sender(), the
\* probe task with tx.clone(), the consumer task
InitSupervise ==
    /\ InitCommon /\ scope = "supervise" /\ IdleExcept({"comp"})
    /\ comp = [phase |-> "supervise", senders |-> {"bus", "run_daemon", "probe"},
               probe |-> "spawn", child |-> "none", status |-> "", spawns |-> 0,
               written |-> 0, queue |-> 0, consumer |-> "recv", received |-> 0,
               slept |-> 0]

SuperviseRunning == comp.phase = "supervise"

\* Command::spawn succeeds, the read loop begins
SupervisorSpawns ==
    /\ SuperviseRunning /\ comp.probe = "spawn" /\ comp.spawns < MaxProbeSpawns
    /\ comp' = [comp EXCEPT !.probe = "read", !.child = "running", !.status = "",
                            !.spawns = @ + 1, !.written = 0]
    /\ UNCHANGED hostVars

\* Command::spawn fails (the command is gone, no process can be created):
\* map_err(..)? returns from start_stream, the probe task prints the error
\* and ends; its sender is dropped
SupervisorSpawnFails ==
    /\ SuperviseRunning /\ comp.probe = "spawn"
    /\ comp' = [comp EXCEPT !.probe = "ended", !.senders = @ \ {"probe"}]
    /\ UNCHANGED hostVars

\* read_line gives a line that parses: tx.send(event) starts
SupervisorReadsEvent ==
    /\ SuperviseRunning /\ comp.probe = "read" /\ comp.child = "running"
    /\ comp.written < MaxProbeEvents
    /\ comp' = [comp EXCEPT !.probe = "send", !.written = @ + 1]
    /\ UNCHANGED hostVars

\* tx.send(event).await completes
SupervisorSends ==
    /\ SuperviseRunning /\ comp.probe = "send" /\ comp.queue < SuperviseCapacity
    /\ comp' = [comp EXCEPT !.probe = "read", !.queue = @ + 1]
    /\ UNCHANGED hostVars

\* the probe process exits, with any status
ChildExits ==
    \E status \in ExitStatuses :
        /\ SuperviseRunning /\ comp.child = "running"
        /\ comp' = [comp EXCEPT !.child = "exited", !.status = status]
        /\ UNCHANGED hostVars

\* read_line gives Ok(0) after the exit, or Err: out of the read loop
SupervisorLeavesReadLoop ==
    \E how \in {"eof", "error"} :
        /\ SuperviseRunning /\ comp.probe = "read"
        /\ how = "eof" => comp.child = "exited"
        /\ comp' = [comp EXCEPT !.probe = "wait"]
        /\ UNCHANGED hostVars

\* child.wait() returns, with any status; the sleep of 1 s begins
SupervisorWaitReturns ==
    /\ SuperviseRunning /\ comp.probe = "wait" /\ comp.child = "exited"
    /\ comp' = [comp EXCEPT !.probe = "sleep"]
    /\ UNCHANGED hostVars

\* the sleep of 1 s is over: the next round of the loop
SupervisorSleepOver ==
    /\ SuperviseRunning /\ comp.probe = "sleep"
    /\ comp' = [comp EXCEPT !.probe = "spawn", !.slept = @ + 1]
    /\ UNCHANGED hostVars

\* the consumer task: rx.recv().await gives Some(event) while the channel
\* holds one, and None when it is empty and no sender is left
ConsumerRecv ==
    /\ SuperviseRunning /\ comp.consumer = "recv"
    /\ comp.queue > 0 \/ comp.senders = {}
    /\ comp' = IF comp.queue > 0
               THEN [comp EXCEPT !.queue = @ - 1, !.received = @ + 1]
               ELSE [comp EXCEPT !.consumer = "ended"]
    /\ UNCHANGED hostVars

\* ctrl_c: probe_handle.abort() and graph_handle.abort()
Cancel ==
    /\ SuperviseRunning /\ comp.consumer # "cancelled"
    /\ comp' = [comp EXCEPT
          !.probe = IF @ = "ended" THEN @ ELSE "cancelled",
          !.senders = @ \ {"probe"},
          !.consumer = IF @ = "ended" THEN @ ELSE "cancelled"]
    /\ UNCHANGED hostVars

NextSupervise ==
    \/ SupervisorSpawns
    \/ SupervisorSpawnFails
    \/ SupervisorReadsEvent
    \/ SupervisorSends
    \/ ChildExits
    \/ SupervisorLeavesReadLoop
    \/ SupervisorWaitReturns
    \/ SupervisorSleepOver
    \/ ConsumerRecv
    \/ Cancel

\* the runtime runs the tasks that can go on
SpecSupervise ==
    /\ InitSupervise /\ [][NextSupervise]_vars
    /\ WF_vars(ConsumerRecv) /\ WF_vars(SupervisorSends)
    /\ WF_vars(SupervisorWaitReturns) /\ WF_vars(SupervisorSleepOver)

\* C34: start_stream leaves its loop by cancellation only: the probe task
\* never returns on its own, and after the exit of a probe process, with
\* any status, and the sleep, the next step of the task is a spawn.
C34_SupervisionEndsByCancellationOnly ==
    /\ [](SuperviseRunning => comp.probe # "ended")
    /\ [][(SuperviseRunning /\ comp.probe = "wait" /\ comp'.probe # "wait")
             => comp'.probe \in {"sleep", "cancelled"}]_vars
    /\ [][(SuperviseRunning /\ comp.probe = "sleep" /\ comp'.probe # "sleep")
             => comp'.probe \in {"spawn", "cancelled"}]_vars

\* C35: once the probe task has ended and its sender is dropped, the
\* consumer receives what the channel still holds and its loop ends (or
\* the task is cancelled before).
C35_ConsumerEndsAfterProbeTask ==
    (SuperviseRunning /\ comp.probe = "ended" /\ comp.consumer = "recv")
      ~> \/ comp.queue = 0 /\ comp.consumer = "ended"
         \/ comp.consumer = "cancelled"

(***************************************************************************)
(* The idle rule and the refresh of an error node (Spec).                  *)
(***************************************************************************)
\* C36: after the ingest of a metric event with pid p, the node pid-p that
\* was in the graph before, not marked exit or zombie, is still there with
\* every edge it had to a resource: the idle rule never removes a process
\* whose pid an event has just carried, whether or not a process.state
\* start was seen for it.
C36_IdleRuleSparesActiveProcess ==
    (Ingested /\ Last.event_type \in MetricTypes /\ Last.pid # None) =>
        LET pid_str == PidStr(Last.pid[1])
        IN  (/\ pid_str \in DOMAIN prev.nodes
             /\ MapGet(prev.nodes[pid_str].metadata, "state")
                    \notin {Some("exit"), Some("zombie")}) =>
                /\ pid_str \in DOMAIN nodes
                /\ \A e \in Range(prev.edges) :
                      (e.from = pid_str /\ e.edge_type \in {"Consumes", "WaitsOn"})
                          => e \in Range(edges)

\* C37: after the ingest of an error.hw, error.net or topo.link_down event
\* for entity e with value v at timestamp t, the node error-e is present
\* with error_type v and last_update t, whether or not it existed before.
C37_ErrorNodeCarriesLastError ==
    (Ingested /\ Last.event_type \in {"error.hw", "error.net", "topo.link_down"}) =>
        LET error_id == ErrorId(Last.entity_id)
        IN  /\ error_id \in DOMAIN nodes
            /\ nodes[error_id].node_type = "Error"
            /\ MapGet(nodes[error_id].metadata, "error_type") = Some(Last.value)
            /\ nodes[error_id].last_update = Last.ts

(***************************************************************************)
(* What the process-tree termination reaches (SpecKill).                   *)
(***************************************************************************)
\* C39: a process-tree termination of pid p terminates no process other
\* than p and the descendants of p: every process that was alive before
\* the call and is neither p nor a descendant of p is alive after it.
C39_TreeKillSparesOtherProcesses ==
    KillRunning =>
        \A i \in 1..Len(comp.ops) :
            comp.ops[i].op = "KillProcessTree" =>
                (DOMAIN comp.ops[i].before) \ (DOMAIN comp.ops[i].after)
                    \subseteq {comp.ops[i].pid}
                                 \cup Descendants(comp.ops[i].before, comp.ops[i].pid)

(***************************************************************************)
(* The pattern matcher of the rule engine on its own (matches_pattern,     *)
(* src/src/rules/matcher.rs): one call on a text and a pattern.            *)
(***************************************************************************)
\* longest text and longest pattern
MaxPatternLen == 3

\* the strings of at most n characters of alphabet
RECURSIVE Words(_, _)
Words(alphabet, n) ==
    IF n = 0 THEN {""}
    ELSE LET shorter == Words(alphabet, n - 1)
         IN  shorter \cup {w \o c : w \in shorter, c \in alphabet}

PatternTexts == Words({"a", "b"}, MaxPatternLen)
PatternPatterns == Words({"a", "b", "*"}, MaxPatternLen)

InitPattern ==
    /\ InitCommon /\ scope = "pattern" /\ IdleExcept({"comp"})
    /\ \E text \in PatternTexts, pattern \in PatternPatterns :
          comp = [phase |-> "pattern", text |-> text, pattern |-> pattern,
                  result |-> None]

PatternRunning == comp.phase = "pattern"

\* matches_pattern(text, pattern)
MatchesPatternCall ==
    /\ PatternRunning /\ comp.result = None
    /\ comp' = [comp EXCEPT !.result = Some(MatchesPattern(comp.text, comp.pattern))]
    /\ UNCHANGED hostVars

NextPattern == MatchesPatternCall

SpecPattern == InitPattern /\ [][NextPattern]_vars

\* text can be obtained from pattern by replacing each "*" with a string
RECURSIVE ShellMatch(_, _)
ShellMatch(text, pattern) ==
    IF pattern = "" THEN text = ""
    ELSE LET rest == SubSeq(pattern, 2, Len(pattern))
         IN  IF SubSeq(pattern, 1, 1) = "*"
             THEN \E k \in 0..Len(text) : ShellMatch(SubSeq(text, k + 1, Len(text)), rest)
             ELSE /\ text # ""
                  /\ SubSeq(text, 1, 1) = SubSeq(pattern, 1, 1)
                  /\ ShellMatch(SubSeq(text, 2, Len(text)), rest)

\* C40: matches_pattern(text, pattern) is true exactly when text can be
\* obtained from pattern by replacing each "*" with some, possibly empty,
\* string; for a pattern without "*" that is exactly when text equals
\* pattern.
C40_MatchesPatternIsShellStyle ==
    (PatternRunning /\ comp.result # None) =>
        (comp.result[1] <=> ShellMatch(comp.text, comp.pattern))

(***************************************************************************)
(* The audit log (AuditLogger, src/agent/src/audit.rs).  A file is the     *)
(* sequence of the records written to it; the current file is at log_path, *)
(* a rotated file is named by the second of its rotation.  Sizes are       *)
(* counted in units of the shortest line.  comp.lock is the write lock of  *)
(* current_size, which log() holds from its size check to its return;      *)
(* comp.accepted holds the records whose log() returned Ok.                *)
(***************************************************************************)
\* calls of log() per behaviour
MaxLogs == 4
\* seconds the clock may advance
MaxSeconds == 1

\* the tasks that call log()
AuditCallers == {1, 2}
\* line lengths
LineSizes == {1, 2}
\* max_size: 0 for max_size_mb = 0
MaxSizes == {0, 2, 3}

\* AuditLogger::new on a path without a file
InitAudit ==
    /\ InitCommon /\ scope = "audit" /\ IdleExcept({"comp"})
    /\ \E max_size \in MaxSizes :
          comp = [phase |-> "audit", max_size |-> max_size, current_size |-> 0,
                  current |-> <<>>, rotated |-> <<>>, now |-> 0,
                  lock |-> None, line |-> [t \in AuditCallers |-> None],
                  logged |-> 0, accepted |-> {}]

AuditRunning == comp.phase = "audit"

\* rotate_log: the current file is renamed to the name of this second, which
\* replaces a file of that name, and a new empty file is opened
RotateLog(c) ==
    [c EXCEPT !.rotated = MapInsert(@, c.now, c.current),
              !.current = <<>>]

\* log(entry) up to the write: takes the lock of current_size and rotates
\* if the line does not fit
LogChecksSize(t) ==
    \E line_bytes \in LineSizes :
        /\ AuditRunning /\ comp.logged < MaxLogs
        /\ comp.lock = None /\ comp.line[t] = None
        /\ LET record == [id |-> comp.logged + 1, bytes |-> line_bytes]
               locked == [comp EXCEPT !.lock = Some(t), !.line[t] = Some(record),
                                      !.logged = @ + 1]
           IN  comp' = IF comp.current_size + line_bytes > comp.max_size
                       THEN [RotateLog(locked) EXCEPT !.current_size = 0]
                       ELSE locked
        /\ UNCHANGED hostVars

\* log(entry) from the write to its return
LogWritesLine(t) ==
    /\ AuditRunning /\ comp.lock = Some(t)
    /\ LET record == comp.line[t][1]
       IN  comp' = [comp EXCEPT !.current = Append(@, record.id),
                                !.current_size = @ + record.bytes,
                                !.accepted = @ \cup {record.id},
                                !.line[t] = None, !.lock = None]
    /\ UNCHANGED hostVars

\* Utc::now() reaches the next second
ClockTicks ==
    /\ AuditRunning /\ comp.now < MaxSeconds
    /\ comp' = [comp EXCEPT !.now = @ + 1]
    /\ UNCHANGED hostVars

NextAudit ==
    \/ \E t \in AuditCallers : LogChecksSize(t) \/ LogWritesLine(t)
    \/ ClockTicks

SpecAudit == InitAudit /\ [][NextAudit]_vars

\* the files that hold record r: the current one ("current") and the
\* rotated ones (their second)
FilesHolding(r) ==
    (IF r \in Range(comp.current) THEN {"current"} ELSE {})
        \cup {s \in DOMAIN comp.rotated : r \in Range(comp.rotated[s])}

\* C38: every record accepted by log() is in the current file or in
\* exactly one rotated file, whatever the number of rotations within one
\* second and whichever tasks called log().
C38_AcceptedRecordsRemain ==
    AuditRunning => \A r \in comp.accepted : Cardinality(FilesHolding(r)) = 1

====
